---- MODULE Spec2Model ----
(***************************************************************************)
(* The retrying dispatch client of the backend (backend/services.py,       *)
(* SentimentAnalysisService.analyze) behind the /analyze request handler   *)
(* (backend/main.py, analyze_sentiment), with the Prometheus counters the  *)
(* two of them increment.                                                  *)
(*                                                                         *)
(* One behaviour of the model is one /analyze request: the handler calls   *)
(* analyze, analyze resolves the endpoint and runs its retry loop, every   *)
(* requests.post ends in one of the outcomes of PostOutcomes, and the      *)
(* handler turns whatever analyze returned or raised into the HTTP answer. *)
(*                                                                         *)
(* The load-testing client (load-testing/benchmark.py) is the second       *)
(* specification, BenchSpec: one run_benchmark over a thread pool, whose   *)
(* calls of the backend each end in a response or an exception, followed   *)
(* by log_stats on the latencies it returned.  MainSpec is its main: the    *)
(* statistics and costs of the two runs and the verdict between them.      *)
(*                                                                         *)
(* ConcSpec is the backend serving several /analyze requests at once, the  *)
(* requests sharing the metrics.                                           *)
(***************************************************************************)
EXTENDS Integers, Sequences, FiniteSets, TLC

(***************************************************************************)
(* Bounds of the model.                                                    *)
(***************************************************************************)
\* settings.MAX_RETRIES ranges over 0..MaxRetriesBound
MaxRetriesBound == 3
\* settings.INITIAL_BACKOFF ranges over 1..MaxInitialBackoff seconds
MaxInitialBackoff == 2
\* one requests.post takes 0..MaxPostTime seconds of wall-clock time
MaxPostTime == 1
\* NUM_REQUESTS ranges over 1..MaxRequests
MaxRequests == 3
\* CONCURRENCY ranges over 1..MaxConcurrency
MaxConcurrency == 2
\* one call_api measures a latency of 0..MaxLatency seconds
MaxLatency == 2
\* one run of run_benchmark returns 0..MaxSamples latencies
MaxSamples == 3
\* the backend serves 1..MaxCalls /analyze requests at once
MaxCalls == 2
\* one /analyze-batch request carries 0..MaxTexts texts
MaxTexts == 2

\* Times are counted in ticks of 1/TimeScale second.  backoff is multiplied
\* by 1.5 at most MAX_RETRIES - 1 times, so with this scale every backoff
\* value of a call is a whole number of ticks and (b * 3) \div 2 is exact
\* (as 1.5 * b is exact in binary floating point for these values).
TimeScale == 2 ^ MaxRetriesBound

\* No call issues more than MAX_RETRIES posts; the histories are capped one
\* above that so that the state space stays finite whatever the loop does.
HistoryCap == MaxRetriesBound + 1

(***************************************************************************)
(* Values.                                                                 *)
(***************************************************************************)
\* Python's None (os.getenv of an unset variable, last_error before any error)
None == "<None>"

LambdaUrl == "https://lambda.example/prod/predict"
KubernetesUrl == "http://kubernetes.example/predict"

\* request.deployment is any string; two recognised names and one that is not
Deployments == {"lambda", "kubernetes", "azure"}

\* HTTP status codes the remote endpoint answers with
StatusCodes == {200, 404, 500, 504}

\* exceptions requests.post raises, with their classes in requests.exceptions
PostExceptions == {"ReadTimeout", "ConnectTimeout", "ConnectionError", "TooManyRedirects"}

ExceptionBases(exc) ==
    CASE exc = "ReadTimeout"      -> {"ReadTimeout", "Timeout", "RequestException"}
      [] exc = "ConnectTimeout"   -> {"ConnectTimeout", "ConnectionError", "Timeout", "RequestException"}
      [] exc = "ConnectionError"  -> {"ConnectionError", "RequestException"}
      [] exc = "TooManyRedirects" -> {"TooManyRedirects", "RequestException"}
      [] OTHER                    -> {exc}

\* A JSON object, as the dict response.json() decodes it to: a function
\* from its keys to their values.  NoDict is the empty dict.
NoDict == [k \in {} |-> None]

\* The values a remote body holds are the remote's choice: a string for
\* the string and float fields, a number for the keys analyze sets itself.
RemoteValue(k) ==
    CASE k = "retry_attempts"   -> 99
      [] k = "response_time_ms" -> 0 - 1
      [] OTHER                  -> "<remote>"

RemoteDict(keys) == [k \in keys |-> RemoteValue(k)]

\* the body model/app.py and model/lambda_handler.py answer a prediction with
CompleteBody == RemoteDict({"text", "sentiment", "confidence", "scores"})

\* The bodies of a 200 answer that decode to a JSON object: the complete
\* one, one that lacks a field, one that holds null for a field, and one
\* that holds keys of the names analyze sets itself.
RemoteBodies ==
    { CompleteBody,
      RemoteDict({"text", "confidence", "scores"}),
      [CompleteBody EXCEPT !["confidence"] = None],
      RemoteDict({"text", "sentiment", "confidence", "scores",
                  "retry_attempts", "response_time_ms", "deployment"}) }

\* What one requests.post can end in: a response (its status, whether
\* response.json() can decode its body, and the body of a 200) or an
\* exception.
PostOutcomes ==
    [kind : {"response"}, status : {200}, json : {TRUE}, body : RemoteBodies, exc : {""}]
        \cup [kind : {"response"}, status : {200}, json : {FALSE}, body : {NoDict}, exc : {""}]
        \cup [kind : {"response"}, status : StatusCodes \ {200}, json : BOOLEAN,
               body : {NoDict}, exc : {""}]
        \cup [kind : {"exception"}, status : {0}, json : {FALSE}, body : {NoDict},
               exc : PostExceptions]

Reasons == {"504_timeout", "request_timeout"}
Statuses == {"success", "error"}

VARIABLES
    settings,       \* backend.config.settings
    pc,             \* where the request is: idle, analyze, loop, sleep, analyzed, done
    deployment,     \* request.deployment
    endpoint,       \* analyze: endpoint
    attempt,        \* analyze: the loop variable
    backoff,        \* analyze: backoff, in ticks
    last_error,     \* analyze: last_error
    start_time,     \* analyze: start_time, in ticks
    clock,          \* time.time(), in ticks
    posts,          \* the outcomes of the requests.post calls of this call, in order
    sleeps,         \* the arguments of the time.sleep calls of this call, in order
    result,         \* what analyze returned or raised
    http,           \* what the handler answered
    RETRY_ATTEMPTS,             \* Counter, by (deployment, reason)
    DEPLOYMENT_REQUEST_COUNT,   \* Counter, by (deployment, status)
    DEPLOYMENT_LATENCY,         \* Histogram, number of observations by deployment
    bench,          \* benchmark.py: NUM_REQUESTS, CONCURRENCY, the run's target and name
    bpc,            \* where main is: off, submit, collect, returned, reported, crashed
    futures,        \* run_benchmark: futures, each with its state and call_api's return value
    latencies,      \* run_benchmark: latencies
    completed,      \* run_benchmark: completed
    issued,         \* the number of call_api calls started so far
    errors_logged,  \* the number of logger.error lines of call_api
    report,         \* the blocks write_report has appended to the report file
    lambda_latencies,   \* main: lambda_latencies
    k8s_latencies,      \* main: k8s_latencies
    calls,          \* the /analyze requests the backend serves at once, each with its position
    client,         \* tests/test_api_with_retry_for_lambda.py: one call_api_with_retry call
    batch           \* main.py: one /analyze-batch request

mainVars == <<lambda_latencies, k8s_latencies>>

benchVars == <<bench, bpc, futures, latencies, completed, issued, errors_logged, report>>

vars == <<settings, pc, deployment, endpoint, attempt, backoff, last_error, start_time,
          clock, posts, sleeps, result, http,
          RETRY_ATTEMPTS, DEPLOYMENT_REQUEST_COUNT, DEPLOYMENT_LATENCY, benchVars,
          mainVars, calls, client, batch>>

(***************************************************************************)
(* backend/config.py                                                       *)
(***************************************************************************)
Settings ==
    [MAX_RETRIES : 0..MaxRetriesBound,
     INITIAL_BACKOFF : {b * TimeScale : b \in 1..MaxInitialBackoff},
     LAMBDA_ENDPOINT : {None, "", LambdaUrl},
     KUBERNETES_ENDPOINT : {None, "", KubernetesUrl}]

(***************************************************************************)
(* backend/services.py                                                     *)
(***************************************************************************)
\* _get_endpoint
_get_endpoint(d) ==
    IF d = "lambda" THEN settings.LAMBDA_ENDPOINT
    ELSE IF d = "kubernetes" THEN settings.KUBERNETES_ENDPOINT
    ELSE None

\* mutant of NotEndpoint: `endpoint is None`, which lets the empty string through
NotEndpointIsNone(e) == e = None

\* `not endpoint`: None and the empty string are falsy
NotEndpoint(e) == e \in {None, ""}

\* what analyze hands to its caller: a returned dict or a raised exception
NoResult ==
    [kind |-> "none", exc |-> "", template |-> "", last_error |-> None, attempts |-> 0,
     status_code |-> 0, deployment |-> "", retry_attempts |-> 0, response_time_ms |-> 0,
     dict |-> NoDict]

\* mutant of Merge: the body's keys are written last and win
MergeBodyLast(body, own) ==
    [k \in DOMAIN body \cup DOMAIN own |-> IF k \in DOMAIN body THEN body[k] ELSE own[k]]

\* {**body, key: value, ...}: a key written later replaces the body's
Merge(body, own) ==
    [k \in DOMAIN body \cup DOMAIN own |-> IF k \in DOMAIN own THEN own[k] ELSE body[k]]

\* mutant of ElapsedMs: the time of the last attempt only
ElapsedMsLastAttempt(start, attempt_start, now) == (now - attempt_start) * 1000

\* elapsed_ms = (time.time() - start_time) * 1000, in 1/TimeScale
\* millisecond; attempt_start is when the iteration began
ElapsedMs(start, attempt_start, now) == (now - start) * 1000

\* the dict of line 62: the decoded body, then analyze's own three keys
Returned(body, a, elapsed_ms, d) ==
    [NoResult EXCEPT !.kind = "return", !.retry_attempts = a,
                     !.response_time_ms = elapsed_ms, !.deployment = d,
                     !.dict = Merge(body, [retry_attempts |-> a,
                                           response_time_ms |-> elapsed_ms,
                                           deployment |-> d])]

\* raise exc(template): the exception's class and the f-string of its message
Raised(exc, template) ==
    [NoResult EXCEPT !.kind = "raise", !.exc = exc, !.template = template]

\* the exceptions analyze builds itself
UnknownDeployment(d) ==
    [Raised("ValueError", "Unknown deployment: {deployment}") EXCEPT !.deployment = d]

AfterAttempts(le) ==
    [Raised("Exception", "{last_error} after {settings.MAX_RETRIES} attempts")
        EXCEPT !.last_error = le, !.attempts = settings.MAX_RETRIES]

StatusError(code) ==
    [Raised("Exception", "{response.status_code}: {message}") EXCEPT !.status_code = code]

CannotReach(d) ==
    [Raised("Exception", "Cannot reach {deployment} endpoint: {str(e)}") EXCEPT !.deployment = d]

Failed(le) ==
    [Raised("Exception", "Failed: {last_error}") EXCEPT !.last_error = le]

\* an exception analyze does not catch leaves it as it was raised:
\* response.json() on a body that is no JSON, or a requests exception that
\* is neither a Timeout nor a ConnectionError
Propagated(exc) == Raised(exc, "{str(e)}")

\* range(settings.MAX_RETRIES)
InRange(a) == a < settings.MAX_RETRIES

\* mutant of MayRetry: the last attempt's transient outcome is slept on too
MayRetryIncludingLast(a) == a < settings.MAX_RETRIES

\* attempt < settings.MAX_RETRIES - 1
MayRetry(a) == a < settings.MAX_RETRIES - 1

\* mutant of NextBackoff: the backoff is doubled
NextBackoffDoubled(b) == b * 2

\* mutant of NextBackoff: the backoff is divided by 1.5
NextBackoffShrinking(b) == (b * 2) \div 3

\* backoff *= 1.5
NextBackoff(b) == (b * 3) \div 2

\* mutant of NextAttempt: the attempt index is never advanced
NextAttemptStuck(a) == a

\* the loop variable of the next iteration
NextAttempt(a) == a + 1

\* mutant of RetryAttemptsField: the one-based number the log lines print
RetryAttemptsOneBased(a) == a + 1

\* "retry_attempts": attempt
RetryAttemptsField(a) == a

\* mutant of NewLastError: only the first error is remembered
NewLastErrorKeepFirst(old, reason) == IF old = None THEN reason ELSE old

\* last_error = <reason of this attempt>
NewLastError(old, reason) == reason

\* mutant of Branch: the except clauses in the other order, ConnectionError
\* before Timeout, so that a ConnectTimeout is no longer retried
BranchConnectionErrorFirst(o) ==
    IF o.kind = "response"
    THEN IF o.status = 200 THEN "success"
         ELSE IF o.status = 504 THEN "gateway_timeout"
         ELSE "other_status"
    ELSE IF "ConnectionError" \in ExceptionBases(o.exc) THEN "connection_error"
         ELSE IF "Timeout" \in ExceptionBases(o.exc) THEN "timeout"
         ELSE "uncaught"

\* mutant of Branch: every RequestException is retried like a timeout
BranchRetryAnyException(o) ==
    IF o.kind = "response"
    THEN IF o.status = 200 THEN "success"
         ELSE IF o.status = 504 THEN "gateway_timeout"
         ELSE "other_status"
    ELSE "timeout"

\* The branch of the loop body one post outcome takes: the status tests of
\* the try block, then the except clauses in their order (Timeout first,
\* then ConnectionError), else the exception leaves analyze as it is.
Branch(o) ==
    IF o.kind = "response"
    THEN IF o.status = 200 THEN "success"
         ELSE IF o.status = 504 THEN "gateway_timeout"
         ELSE "other_status"
    ELSE IF "Timeout" \in ExceptionBases(o.exc) THEN "timeout"
         ELSE IF "ConnectionError" \in ExceptionBases(o.exc) THEN "connection_error"
         ELSE "uncaught"

\* the handler has not answered
NoAnswer == [status_code |-> 0, detail |-> NoResult, body |-> NoDict]

Inc(counter, key) == [counter EXCEPT ![key] = @ + 1]

TypeOK ==
    /\ settings \in Settings
    /\ pc \in {"idle", "analyze", "loop", "sleep", "analyzed", "done"}
    /\ deployment \in Deployments \cup {None}
    /\ attempt \in 0..HistoryCap
    /\ posts \in Seq(PostOutcomes)
    /\ Len(posts) <= HistoryCap

\* call_api_with_retry returned None, or what response.json() decoded
ClientNone == [none |-> TRUE, json |-> NoDict]

ClientJson(body) == [none |-> FALSE, json |-> body]

\* call_api_with_retry has not been called
NoClient ==
    [pc |-> "idle", max_retries |-> 0, attempt |-> 0, backoff |-> 0, requests |-> 0,
     sleeps |-> <<>>, result |-> ClientNone]

\* no /analyze-batch request has arrived
NoBatch ==
    [pc |-> "idle", texts |-> <<>>, index |-> 0, results |-> <<>>, status_code |-> 0,
     total |-> 0, successful |-> 0]

\* the load-testing client is not running
BenchOff ==
    /\ bench = [NUM_REQUESTS |-> 0, CONCURRENCY |-> 0, deployment_type |-> None,
                name |-> None]
    /\ bpc = "off"
    /\ futures = <<>>
    /\ latencies = <<>>
    /\ completed = 0
    /\ issued = 0
    /\ errors_logged = 0
    /\ report = <<>>
    /\ lambda_latencies = <<>>
    /\ k8s_latencies = <<>>
    /\ calls = <<>>
    /\ client = NoClient
    /\ batch = NoBatch

Init ==
    /\ BenchOff
    /\ settings \in Settings
    /\ pc = "idle"
    /\ deployment = None
    /\ endpoint = None
    /\ attempt = 0
    /\ backoff = 0
    /\ last_error = None
    /\ start_time = 0
    /\ clock = 0
    /\ posts = <<>>
    /\ sleeps = <<>>
    /\ result = NoResult
    /\ http = NoAnswer
    /\ RETRY_ATTEMPTS = [k \in Deployments \X Reasons |-> 0]
    /\ DEPLOYMENT_REQUEST_COUNT = [k \in Deployments \X Statuses |-> 0]
    /\ DEPLOYMENT_LATENCY = [d \in Deployments |-> 0]

(***************************************************************************)
(* backend/services.py, SentimentAnalysisService.analyze                   *)
(***************************************************************************)
\* lines 37-45: resolve the endpoint, set up the retry state
AnalyzeStart ==
    /\ pc = "analyze"
    /\ LET e == _get_endpoint(deployment) IN
        IF NotEndpoint(e)
        THEN /\ result' = UnknownDeployment(deployment)
             /\ pc' = "analyzed"
             /\ UNCHANGED <<endpoint, start_time, backoff, last_error, attempt>>
        ELSE /\ endpoint' = e
             /\ start_time' = clock
             /\ backoff' = settings.INITIAL_BACKOFF
             /\ last_error' = None
             /\ attempt' = 0
             /\ pc' = "loop"
             /\ UNCHANGED result
    /\ UNCHANGED <<settings, deployment, clock, posts, sleeps, http,
                   RETRY_ATTEMPTS, DEPLOYMENT_REQUEST_COUNT, DEPLOYMENT_LATENCY>>
    /\ UNCHANGED <<benchVars, mainVars, calls, client, batch>>

\* mutant of Transient: the retry is counted only when another attempt follows
TransientCountsOnlyRetries(reason, text) ==
    /\ RETRY_ATTEMPTS' = IF MayRetry(attempt)
                         THEN Inc(RETRY_ATTEMPTS, <<deployment, reason>>)
                         ELSE RETRY_ATTEMPTS
    /\ last_error' = NewLastError(last_error, text)
    /\ IF MayRetry(attempt)
       THEN pc' = "sleep" /\ UNCHANGED result
       ELSE pc' = "analyzed" /\ result' = AfterAttempts(last_error')

\* the transient branches (lines 71-80 and 87-95): count the retry, remember
\* the error, then either go to sleep or give up
Transient(reason, text) ==
    /\ RETRY_ATTEMPTS' = Inc(RETRY_ATTEMPTS, <<deployment, reason>>)
    /\ last_error' = NewLastError(last_error, text)
    /\ IF MayRetry(attempt)
       THEN pc' = "sleep" /\ UNCHANGED result
       ELSE pc' = "analyzed" /\ result' = AfterAttempts(last_error')

\* lines 47-98: one iteration of the loop up to its return, raise or sleep;
\* the post ends in outcome o after t seconds
Post(o, t) ==
    /\ pc = "loop"
    /\ InRange(attempt)
    /\ Len(posts) < HistoryCap
    /\ posts' = Append(posts, o)
    /\ clock' = clock + t * TimeScale
    /\ LET b == Branch(o) IN
        CASE b = "success" ->
                /\ pc' = "analyzed"
                /\ result' = IF o.json
                             THEN Returned(o.body, RetryAttemptsField(attempt),
                                           ElapsedMs(start_time, clock, clock'),
                                           deployment)
                             ELSE Propagated("JSONDecodeError")
                /\ UNCHANGED <<RETRY_ATTEMPTS, last_error>>
          [] b = "gateway_timeout" -> Transient("504_timeout", "504 Gateway Timeout")
          [] b = "other_status" ->
                /\ pc' = "analyzed"
                /\ result' = IF o.json
                             THEN StatusError(o.status)
                             ELSE Propagated("JSONDecodeError")
                /\ UNCHANGED <<RETRY_ATTEMPTS, last_error>>
          [] b = "timeout" -> Transient("request_timeout", "Request Timeout")
          [] b = "connection_error" ->
                /\ pc' = "analyzed"
                /\ result' = CannotReach(deployment)
                /\ UNCHANGED <<RETRY_ATTEMPTS, last_error>>
          [] OTHER ->
                /\ pc' = "analyzed"
                /\ result' = Propagated(o.exc)
                /\ UNCHANGED <<RETRY_ATTEMPTS, last_error>>
    /\ UNCHANGED <<settings, deployment, endpoint, attempt, backoff, start_time, sleeps,
                   http, DEPLOYMENT_REQUEST_COUNT, DEPLOYMENT_LATENCY>>
    /\ UNCHANGED <<benchVars, mainVars, calls, client, batch>>

\* lines 77-78 and 92-93: time.sleep(backoff); backoff *= 1.5; next iteration
Sleep ==
    /\ pc = "sleep"
    /\ Len(sleeps) < HistoryCap
    /\ sleeps' = Append(sleeps, backoff)
    /\ clock' = clock + backoff
    /\ backoff' = NextBackoff(backoff)
    /\ attempt' = NextAttempt(attempt)
    /\ pc' = "loop"
    /\ UNCHANGED <<settings, deployment, endpoint, last_error, start_time, posts, result,
                   http, RETRY_ATTEMPTS, DEPLOYMENT_REQUEST_COUNT, DEPLOYMENT_LATENCY>>
    /\ UNCHANGED <<benchVars, mainVars, calls, client, batch>>

\* line 100: the loop ran out of iterations
LoopExit ==
    /\ pc = "loop"
    /\ ~InRange(attempt)
    /\ result' = Failed(last_error)
    /\ pc' = "analyzed"
    /\ UNCHANGED <<settings, deployment, endpoint, attempt, backoff, last_error, start_time,
                   clock, posts, sleeps, http,
                   RETRY_ATTEMPTS, DEPLOYMENT_REQUEST_COUNT, DEPLOYMENT_LATENCY>>
    /\ UNCHANGED <<benchVars, mainVars, calls, client, batch>>

(***************************************************************************)
(* backend/main.py, analyze_sentiment                                      *)
(***************************************************************************)
\* lines 70-76: a request for deployment d arrives and analyze is called
ReceiveRequest(d) ==
    /\ pc = "idle"
    /\ deployment' = d
    /\ pc' = "analyze"
    /\ UNCHANGED <<settings, endpoint, attempt, backoff, last_error, start_time, clock,
                   posts, sleeps, result, http,
                   RETRY_ATTEMPTS, DEPLOYMENT_REQUEST_COUNT, DEPLOYMENT_LATENCY>>
    /\ UNCHANGED <<benchVars, mainVars, calls, client, batch>>

\* the fields of AnalysisResponse (models.py lines 21-30), those without a
\* default, and those of them the model holds a string for
ResponseFields == {"text", "sentiment", "confidence", "scores", "deployment",
                   "retry_attempts", "response_time_ms", "timestamp"}
RequiredFields == ResponseFields \ {"scores"}
StringFields == {"text", "sentiment", "confidence", "deployment", "timestamp"}

\* result["timestamp"] = datetime.now().isoformat()
WithTimestamp(dict) ==
    [k \in DOMAIN dict \cup {"timestamp"} |-> IF k = "timestamp" THEN "<now>" ELSE dict[k]]

\* mutant of Validates: the route declares no response_model
ValidatesAlways(dict) == TRUE

\* response_model=AnalysisResponse (line 70): the returned dict is validated
\* against the model; a required field that is missing or null fails it
Validates(dict) ==
    /\ RequiredFields \subseteq DOMAIN dict
    /\ \A k \in StringFields : dict[k] # None

\* the body of the 200 answer: the fields of the response model
ResponseBody(dict) == [k \in DOMAIN dict \cap ResponseFields |-> dict[k]]

\* The status the handler answers with: 200 with the result (line 91) when
\* it validates against the response model and 500 when it does not, or
\* HTTPException(status_code=500, detail=str(e)) for any Exception (line 106)
StatusCodeFor(r) ==
    IF r.kind = "return" /\ Validates(WithTimestamp(r.dict)) THEN 200 ELSE 500

\* what the client receives
Answer(r) ==
    IF r.kind # "return"
    THEN [status_code |-> StatusCodeFor(r), detail |-> r, body |-> NoDict]
    ELSE IF StatusCodeFor(r) = 200
    THEN [status_code |-> 200, detail |-> r, body |-> ResponseBody(WithTimestamp(r.dict))]
    ELSE [status_code |-> StatusCodeFor(r),
          detail |-> Raised("ResponseValidationError", "Internal Server Error"),
          body |-> NoDict]

\* mutant of StatusLabelFor: every request is counted as a success
StatusLabelForAlwaysSuccess(r) == "success"

\* mutant of StatusLabelFor: the two labels exchanged
StatusLabelForExchanged(r) == IF r.kind = "return" THEN "error" ELSE "success"

\* the label the request is counted under (lines 80-83 and 96-99)
StatusLabelFor(r) == IF r.kind = "return" THEN "success" ELSE "error"

\* lines 77-106: count the request, observe its latency, answer
Respond ==
    /\ pc = "analyzed"
    /\ DEPLOYMENT_REQUEST_COUNT' =
            Inc(DEPLOYMENT_REQUEST_COUNT, <<deployment, StatusLabelFor(result)>>)
    /\ DEPLOYMENT_LATENCY' = Inc(DEPLOYMENT_LATENCY, deployment)
    /\ http' = Answer(result)
    /\ pc' = "done"
    /\ UNCHANGED <<settings, deployment, endpoint, attempt, backoff, last_error, start_time,
                   clock, posts, sleeps, result, RETRY_ATTEMPTS>>
    /\ UNCHANGED <<benchVars, mainVars, calls, client, batch>>

Next ==
    \/ \E d \in Deployments : ReceiveRequest(d)
    \/ AnalyzeStart
    \/ \E o \in PostOutcomes, t \in 0..MaxPostTime : Post(o, t)
    \/ Sleep
    \/ LoopExit
    \/ Respond

Spec == Init /\ [][Next]_vars

\* Every requests.post returns or raises within its timeout, every
\* time.sleep ends and the interpreter keeps running the handler: a request
\* that has arrived keeps taking steps.
Running == AnalyzeStart \/ (\E o \in PostOutcomes, t \in 0..MaxPostTime : Post(o, t))
              \/ Sleep \/ LoopExit \/ Respond

LiveSpec == Init /\ [][Next]_vars /\ WF_vars(Running)

(***************************************************************************)
(* load-testing/benchmark.py                                               *)
(***************************************************************************)
\* Pricing, in units of 0.0001 dollar.  The per-request and per-GB-second
\* prices are the prices of a million requests and of a million GB-seconds.
LAMBDA_REQ_PRICE == 2000
LAMBDA_GB_SEC_PRICE == 166667
LAMBDA_MEMORY_GB == 3
EKS_HOURLY_PRICE == 1000
EC2_HOURLY_PRICE == 208
TOTAL_EKS_HOURLY == EKS_HOURLY_PRICE + EC2_HOURLY_PRICE

\* the two runs of main: run_benchmark(deployment_type), log_stats(name, ...)
Runs == {[deployment_type |-> "lambda", name |-> "AWS Lambda"],
         [deployment_type |-> "kubernetes", name |-> "Kubernetes (EKS)"]}

\* What one requests.post of call_api ends in: the backend's answer (200,
\* 422 for a request it rejects, 500 for a failed analysis) or an exception
\* (the 30 s timeout, a refused connection).
CallOutcomes ==
    [kind : {"response"}, status : {200, 422, 500}, exc : {""}]
        \cup [kind : {"exception"}, status : {0}, exc : {"Timeout", "ConnectionError"}]

\* response.raise_for_status() raises HTTPError for a 4xx or 5xx status
RaisesForStatus(code) == code \in 400..599

\* the value a future holds: None, or a latency in seconds
NoneValue == [none |-> TRUE, latency |-> 0]
Latency(t) == [none |-> FALSE, latency |-> t]

\* call_api: the latency when the post returned and raise_for_status did
\* not raise, None when anything raised
call_api(o, t) ==
    IF o.kind = "response" /\ ~RaisesForStatus(o.status) THEN Latency(t) ELSE NoneValue

\* mutant of Truthy: `if latency is not None`
TruthyNotNone(v) == ~v.none

\* `if latency:`: None and 0.0 are falsy
Truthy(v) == ~v.none /\ v.latency # 0

\* mutant of Appended: the collection is replaced by the new sample
AppendedOverwrites(l, t) == <<t>>

\* latencies.append(latency)
Appended(l, t) == Append(l, t)

\* the calls a worker thread is running
RunningCalls == {i \in DOMAIN futures : futures[i].state = "running"}

\* mutant of WorkerFree: one thread per submitted call
WorkerFreeAlways == TRUE

\* ThreadPoolExecutor(max_workers=CONCURRENCY): a queued call starts when
\* fewer than max_workers calls are running
WorkerFree == Cardinality(RunningCalls) < bench.CONCURRENCY

\* the work queue is first in, first out
NextQueued(i) ==
    /\ futures[i].state = "queued"
    /\ \A j \in DOMAIN futures : futures[j].state = "queued" => i <= j

\* mutant of AsCompletedExhausted: the loop ends with the first future yielded
AsCompletedFirst == \E i \in DOMAIN futures : futures[i].state = "yielded"

\* as_completed(futures) is exhausted once it has yielded every future
AsCompletedExhausted == \A i \in DOMAIN futures : futures[i].state = "yielded"

\* sorted(data), by insertion
RECURSIVE Insert(_, _)
Insert(sorted, x) ==
    IF sorted = <<>> THEN <<x>>
    ELSE IF x <= Head(sorted) THEN <<x>> \o sorted
    ELSE <<Head(sorted)>> \o Insert(Tail(sorted), x)

RECURSIVE Sorted(_)
Sorted(data) == IF data = <<>> THEN <<>> ELSE Insert(Sorted(Tail(data)), Head(data))

RECURSIVE Sum(_)
Sum(data) == IF data = <<>> THEN 0 ELSE Head(data) + Sum(Tail(data))

\* mutant of Median2: the middle of the data as they came, unsorted
Median2Unsorted(data) ==
    LET n == Len(data)
    IN IF n % 2 = 1 THEN 2 * data[(n \div 2) + 1] ELSE data[n \div 2] + data[(n \div 2) + 1]

\* statistics.median, times 2: the middle value, or the mean of the two
\* middle values
Median2(data) ==
    LET d == Sorted(data)
        n == Len(d)
    IN IF n % 2 = 1 THEN 2 * d[(n \div 2) + 1] ELSE d[n \div 2] + d[(n \div 2) + 1]

\* statistics.quantiles(data, n=20)[18], times 20: the 19th of the 19 cut
\* points of the default method ("exclusive"), for at least two data points
Quantiles18Times20(data) ==
    LET d == Sorted(data)
        ld == Len(d)
        m == ld + 1
        j0 == (19 * m) \div 20
        j == IF j0 < 1 THEN 1 ELSE IF j0 > ld - 1 THEN ld - 1 ELSE j0
        delta == 19 * m - j * 20
    IN d[j] * (20 - delta) + d[j + 1] * delta

Min(data) == CHOOSE x \in {data[i] : i \in DOMAIN data} : \A i \in DOMAIN data : x <= data[i]
Max(data) == CHOOSE x \in {data[i] : i \in DOMAIN data} : \A i \in DOMAIN data : x >= data[i]

\* a block of the report file
NoLine ==
    [kind |-> "", name |-> "", count |-> 0, sum |-> 0, min |-> 0, max |-> 0, p50x2 |-> 0,
     p95x20 |-> 0, cost_num |-> 0, cost_den |-> 1, monthly |-> 0,
     speedup_num |-> 0, speedup_den |-> 1]

\* "<name>: No successful requests recorded."
NoDataLine(name) == [NoLine EXCEPT !.kind = "no_data", !.name = name]

\* "Results for <name>: ...", avg being sum / count
StatsLine(name, data, p95x20) ==
    [NoLine EXCEPT !.kind = "stats", !.name = name, !.count = Len(data), !.sum = Sum(data),
                   !.min = Min(data), !.max = Max(data), !.p50x2 = Median2(data),
                   !.p95x20 = p95x20]

\* mutant of estimate_costs: the request charge is left out
estimate_costsComputeOnly(name, sum, count) ==
    IF name = "AWS Lambda"
    THEN [NoLine EXCEPT !.kind = "cost_lambda", !.name = name,
                        !.cost_num = sum * LAMBDA_MEMORY_GB * LAMBDA_GB_SEC_PRICE,
                        !.cost_den = count]
    ELSE IF name = "Kubernetes (EKS)"
    THEN [NoLine EXCEPT !.kind = "cost_eks", !.name = name,
                        !.monthly = TOTAL_EKS_HOURLY * 24 * 30]
    ELSE [NoLine EXCEPT !.kind = "cost_empty", !.name = name]

\* estimate_costs(name, avg_latency), avg_latency being sum / count
estimate_costs(name, sum, count) ==
    IF name = "AWS Lambda"
    THEN [NoLine EXCEPT !.kind = "cost_lambda", !.name = name,
                        !.cost_num = sum * LAMBDA_MEMORY_GB * LAMBDA_GB_SEC_PRICE
                                        + count * LAMBDA_REQ_PRICE,
                        !.cost_den = count]
    ELSE IF name = "Kubernetes (EKS)"
    THEN [NoLine EXCEPT !.kind = "cost_eks", !.name = name,
                        !.monthly = TOTAL_EKS_HOURLY * 24 * 30]
    ELSE [NoLine EXCEPT !.kind = "cost_empty", !.name = name]

\* mutant of NotLatencies: the empty collection is not tested for
NotLatenciesNever(l) == FALSE

\* `if not latencies`
NotLatencies(l) == l = <<>>

\* lines 160-164 and 168: main starts run_benchmark for one of its targets
BenchInit ==
    /\ settings \in {s \in Settings : s.MAX_RETRIES = 3 /\ s.INITIAL_BACKOFF = TimeScale
                                      /\ s.LAMBDA_ENDPOINT = LambdaUrl
                                      /\ s.KUBERNETES_ENDPOINT = KubernetesUrl}
    /\ pc = "idle"
    /\ deployment = None
    /\ endpoint = None
    /\ attempt = 0
    /\ backoff = 0
    /\ last_error = None
    /\ start_time = 0
    /\ clock = 0
    /\ posts = <<>>
    /\ sleeps = <<>>
    /\ result = NoResult
    /\ http = NoAnswer
    /\ RETRY_ATTEMPTS = [k \in Deployments \X Reasons |-> 0]
    /\ DEPLOYMENT_REQUEST_COUNT = [k \in Deployments \X Statuses |-> 0]
    /\ DEPLOYMENT_LATENCY = [d \in Deployments |-> 0]
    /\ \E r \in Runs, n \in 1..MaxRequests, c \in 1..MaxConcurrency :
            bench = [NUM_REQUESTS |-> n, CONCURRENCY |-> c,
                     deployment_type |-> r.deployment_type, name |-> r.name]
    /\ bpc = "submit"
    /\ futures = <<>>
    /\ latencies = <<>>
    /\ completed = 0
    /\ issued = 0
    /\ errors_logged = 0
    /\ report = <<>>
    /\ lambda_latencies = <<>>
    /\ k8s_latencies = <<>>
    /\ calls = <<>>
    /\ client = NoClient
    /\ batch = NoBatch

dispatchVars == <<settings, pc, deployment, endpoint, attempt, backoff, last_error,
                  start_time, clock, posts, sleeps, result, http,
                  RETRY_ATTEMPTS, DEPLOYMENT_REQUEST_COUNT, DEPLOYMENT_LATENCY>>

\* line 56: executor.submit(call_api, deployment_type), once per request;
\* after the last one the as_completed loop starts (line 58)
Submit ==
    /\ bpc = "submit"
    /\ Len(futures) < bench.NUM_REQUESTS
    /\ futures' = Append(futures, [state |-> "queued", value |-> NoneValue])
    /\ bpc' = IF Len(futures') = bench.NUM_REQUESTS THEN "collect" ELSE "submit"
    /\ UNCHANGED <<bench, latencies, completed, issued, errors_logged, report>>
    /\ UNCHANGED <<dispatchVars, mainVars, calls, client, batch>>

\* a worker thread of the pool takes the next queued call (line 38)
WorkerStart(i) ==
    /\ bpc \in {"submit", "collect"}
    /\ i \in DOMAIN futures
    /\ NextQueued(i)
    /\ WorkerFree
    /\ futures' = [futures EXCEPT ![i].state = "running"]
    /\ issued' = issued + 1
    /\ UNCHANGED <<bench, bpc, latencies, completed, errors_logged, report>>
    /\ UNCHANGED <<dispatchVars, mainVars, calls, client, batch>>

\* lines 39-49: the call's post ends in outcome o after t seconds
CallReturns(i, o, t) ==
    /\ i \in DOMAIN futures
    /\ futures[i].state = "running"
    /\ LET v == call_api(o, t) IN
        /\ futures' = [futures EXCEPT ![i] = [state |-> "finished", value |-> v]]
        /\ errors_logged' = IF v.none THEN errors_logged + 1 ELSE errors_logged
    /\ UNCHANGED <<bench, bpc, latencies, completed, issued, report>>
    /\ UNCHANGED <<dispatchVars, mainVars, calls, client, batch>>

\* lines 59-65: as_completed yields a finished future
Collect(i) ==
    /\ bpc = "collect"
    /\ i \in DOMAIN futures
    /\ futures[i].state = "finished"
    /\ futures' = [futures EXCEPT ![i].state = "yielded"]
    /\ completed' = completed + 1
    /\ latencies' = IF Truthy(futures[i].value)
                    THEN Appended(latencies, futures[i].value.latency)
                    ELSE latencies
    /\ UNCHANGED <<bench, bpc, issued, errors_logged, report>>
    /\ UNCHANGED <<dispatchVars, mainVars, calls, client, batch>>

\* lines 66-68: the loop and the with block end, run_benchmark returns
Return ==
    /\ bpc = "collect"
    /\ AsCompletedExhausted
    /\ bpc' = "returned"
    /\ UNCHANGED <<bench, futures, latencies, completed, issued, errors_logged, report>>
    /\ UNCHANGED <<dispatchVars, mainVars, calls, client, batch>>

\* lines 70-97 and 109-149: log_stats(name, latencies).  statistics.mean
\* raises StatisticsError on no data; statistics.quantiles raises it on a
\* single data point before Python 3.13 and returns that point for every
\* cut from 3.13 on (python313 says which interpreter runs the script).
\* main does not catch it.
LogStats(python313) ==
    /\ bpc = "returned"
    /\ IF NotLatencies(latencies)
       THEN /\ report' = Append(report, NoDataLine(bench.name))
            /\ bpc' = "reported"
       ELSE IF Len(latencies) = 0 \/ (Len(latencies) = 1 /\ ~python313)
       THEN /\ report' = report
            /\ bpc' = "crashed"
       ELSE /\ report' = report \o
                    << StatsLine(bench.name, latencies,
                                 IF Len(latencies) = 1 THEN 20 * latencies[1]
                                 ELSE Quantiles18Times20(latencies)),
                       estimate_costs(bench.name, Sum(latencies), Len(latencies)) >>
            /\ bpc' = "reported"
    /\ UNCHANGED <<bench, futures, latencies, completed, issued, errors_logged>>
    /\ UNCHANGED <<dispatchVars, mainVars, calls, client, batch>>

BenchNext ==
    \/ Submit
    \/ \E i \in 1..MaxRequests : WorkerStart(i)
    \/ \E i \in 1..MaxRequests, o \in CallOutcomes, t \in 0..MaxLatency : CallReturns(i, o, t)
    \/ \E i \in 1..MaxRequests : Collect(i)
    \/ Return
    \/ \E python313 \in BOOLEAN : LogStats(python313)

BenchSpec == BenchInit /\ [][BenchNext]_vars

\* The pool's threads and the main thread keep running, and every call_api
\* ends: its post returns or raises within its 30 s timeout.
BenchLiveSpec == BenchInit /\ [][BenchNext]_vars /\ WF_vars(BenchNext)

(***************************************************************************)
(* load-testing/benchmark.py, main: the two runs, their statistics and the *)
(* verdict.  run_benchmark is the one of BenchSpec; here a run is taken by *)
(* what it returns.                                                        *)
(***************************************************************************)
\* What run_benchmark can return: the latencies of the calls that
\* succeeded with a truthy latency, in the order they completed.
SampleLists == UNION {[1..n -> 1..MaxLatency] : n \in 0..MaxSamples}

\* twenty calls that took 1, 2, ..., 20 seconds
TwentySamples == [i \in 1..20 |-> i]

LambdaRun == [deployment_type |-> "lambda", name |-> "AWS Lambda"]
KubernetesRun == [deployment_type |-> "kubernetes", name |-> "Kubernetes (EKS)"]

\* the configuration and the run main is in; python313 says which
\* interpreter runs the script
MainBench(run, l, python313) ==
    [NUM_REQUESTS |-> IF l = <<>> THEN 1 ELSE Len(l), CONCURRENCY |-> 1,
     deployment_type |-> run.deployment_type, name |-> run.name, python313 |-> python313]

\* line 164: lambda_latencies = run_benchmark("lambda") has returned
MainInit ==
    /\ settings \in {s \in Settings : s.MAX_RETRIES = 3 /\ s.INITIAL_BACKOFF = TimeScale
                                      /\ s.LAMBDA_ENDPOINT = LambdaUrl
                                      /\ s.KUBERNETES_ENDPOINT = KubernetesUrl}
    /\ pc = "idle"
    /\ deployment = None
    /\ endpoint = None
    /\ attempt = 0
    /\ backoff = 0
    /\ last_error = None
    /\ start_time = 0
    /\ clock = 0
    /\ posts = <<>>
    /\ sleeps = <<>>
    /\ result = NoResult
    /\ http = NoAnswer
    /\ RETRY_ATTEMPTS = [k \in Deployments \X Reasons |-> 0]
    /\ DEPLOYMENT_REQUEST_COUNT = [k \in Deployments \X Statuses |-> 0]
    /\ DEPLOYMENT_LATENCY = [d \in Deployments |-> 0]
    /\ calls = <<>>
    /\ client = NoClient
    /\ batch = NoBatch
    /\ \E l \in SampleLists \cup {TwentySamples}, python313 \in BOOLEAN :
            /\ bench = MainBench(LambdaRun, l, python313)
            /\ latencies = l
            /\ lambda_latencies = l
    /\ k8s_latencies = <<>>
    /\ bpc = "returned"
    /\ futures = <<>>
    /\ completed = 0
    /\ issued = 0
    /\ errors_logged = 0
    /\ report = <<>>

\* lines 165 and 169: log_stats(name, latencies) of the run main is in
MainLogStats == LogStats(bench.python313)

\* line 168: k8s_latencies = run_benchmark("kubernetes") returns l
SecondRun(l) ==
    /\ bpc = "reported"
    /\ bench.deployment_type = "lambda"
    /\ bench' = MainBench(KubernetesRun, l, bench.python313)
    /\ latencies' = l
    /\ k8s_latencies' = l
    /\ bpc' = "returned"
    /\ UNCHANGED <<futures, completed, issued, errors_logged, report, lambda_latencies>>
    /\ UNCHANGED <<dispatchVars, calls, client, batch>>

\* mutant of K8sFaster: the comparison the other way round
K8sFasterFlipped(ksum, kcount, lsum, lcount) == ksum * lcount > lsum * kcount

\* k8s_avg < lambda_avg, the averages being ksum / kcount and lsum / lcount
K8sFaster(ksum, kcount, lsum, lcount) == ksum * lcount < lsum * kcount

\* lines 176-182: the winner and speedup = the loser's avg / the winner's avg
VerdictLine(k, l) ==
    IF K8sFaster(Sum(k), Len(k), Sum(l), Len(l))
    THEN [NoLine EXCEPT !.kind = "verdict", !.name = "Kubernetes",
                        !.speedup_num = Sum(l) * Len(k), !.speedup_den = Sum(k) * Len(l)]
    ELSE [NoLine EXCEPT !.kind = "verdict", !.name = "AWS Lambda",
                        !.speedup_num = Sum(k) * Len(l), !.speedup_den = Sum(l) * Len(k)]

\* mutant of BothHaveSamples: one run with latencies is enough
EitherHasSamples(l, k) == l # <<>> \/ k # <<>>

\* `if lambda_latencies and k8s_latencies`
BothHaveSamples(l, k) == l # <<>> /\ k # <<>>

\* lines 172-184: the comparison, when both runs returned latencies
Verdict ==
    /\ bpc = "reported"
    /\ bench.deployment_type = "kubernetes"
    /\ report' = IF BothHaveSamples(lambda_latencies, k8s_latencies)
                 THEN Append(report, VerdictLine(k8s_latencies, lambda_latencies))
                 ELSE report
    /\ bpc' = "finished"
    /\ UNCHANGED <<bench, futures, latencies, completed, issued, errors_logged, mainVars>>
    /\ UNCHANGED <<dispatchVars, calls, client, batch>>

MainNext ==
    \/ MainLogStats
    \/ \E l \in SampleLists : SecondRun(l)
    \/ Verdict

MainSpec == MainInit /\ [][MainNext]_vars

(***************************************************************************)
(* backend/main.py and backend/services.py under concurrent requests.      *)
(* analyze_sentiment is a plain `def` route, so every request runs in a    *)
(* thread of the server's pool; the requests share the three metrics.      *)
(* Counter.inc() adds to the labelled child's value under that value's     *)
(* lock: the value is read and written back while the lock is held.        *)
(***************************************************************************)
\* no "retry_attempts" key: the call has not returned
NoRetryAttempts == -1

NoCall ==
    [pc |-> "idle", deployment |-> None, attempt |-> 0, backoff |-> 0,
     retry_attempts |-> NoRetryAttempts, raised |-> FALSE,
     transients |-> [r \in Reasons |-> 0], key |-> <<>>, read |-> 0]

\* mutant of Blocked: a sleeping call stops every call, as time.sleep would in
\* a coroutine route running on the event loop
BlockedBySleeper(i) == \E j \in DOMAIN calls : calls[j].pc = "sleep"

\* main.py line 71 is a plain `def` route, run in a thread of its own, and
\* time.sleep(backoff) blocks the calling thread only
Blocked(i) == calls[i].pc = "sleep"

\* mutant of Retried: attempt and backoff are kept in one place for all calls
RetriedShared(cs, i) ==
    [j \in DOMAIN cs |->
        IF j = i
        THEN [cs[j] EXCEPT !.pc = "loop", !.attempt = NextAttempt(@),
                           !.backoff = NextBackoff(@)]
        ELSE [cs[j] EXCEPT !.attempt = NextAttempt(@), !.backoff = NextBackoff(@)]]

\* services.py lines 42, 47, 78 and 93: `backoff` and the loop variable
\* `attempt` are locals of the call; the sleep over, `backoff *= 1.5` and the
\* next iteration
Retried(cs, i) ==
    [cs EXCEPT ![i] = [@ EXCEPT !.pc = "loop", !.attempt = NextAttempt(@),
                                !.backoff = NextBackoff(@)]]

\* mutant of LockFree: the value is read and written back without a lock
LockFreeAlways(metric, key) == TRUE

\* no thread is inside inc() on the value of this metric and these labels
LockFree(metric, key) ==
    \A j \in DOMAIN calls : ~(calls[j].pc = metric /\ calls[j].key = key)

ConcInit ==
    /\ bench = [NUM_REQUESTS |-> 0, CONCURRENCY |-> 0, deployment_type |-> None,
                name |-> None]
    /\ bpc = "off"
    /\ futures = <<>>
    /\ latencies = <<>>
    /\ completed = 0
    /\ issued = 0
    /\ errors_logged = 0
    /\ report = <<>>
    /\ lambda_latencies = <<>>
    /\ k8s_latencies = <<>>
    /\ settings \in {s \in Settings : s.MAX_RETRIES = 2 /\ s.INITIAL_BACKOFF = TimeScale
                                      /\ s.LAMBDA_ENDPOINT = LambdaUrl
                                      /\ s.KUBERNETES_ENDPOINT = KubernetesUrl}
    /\ pc = "idle"
    /\ deployment = None
    /\ endpoint = None
    /\ attempt = 0
    /\ backoff = 0
    /\ last_error = None
    /\ start_time = 0
    /\ clock = 0
    /\ posts = <<>>
    /\ sleeps = <<>>
    /\ result = NoResult
    /\ http = NoAnswer
    /\ RETRY_ATTEMPTS = [k \in Deployments \X Reasons |-> 0]
    /\ DEPLOYMENT_REQUEST_COUNT = [k \in Deployments \X Statuses |-> 0]
    /\ DEPLOYMENT_LATENCY = [d \in Deployments |-> 0]
    /\ \E n \in 1..MaxCalls : calls = [i \in 1..n |-> NoCall]
    /\ client = NoClient
    /\ batch = NoBatch

concFrozen == <<settings, pc, deployment, endpoint, attempt, backoff, last_error, start_time,
                clock, posts, sleeps, result, http, benchVars, mainVars, client, batch>>

\* main.py lines 70-77 and services.py lines 37-45: request i arrives for
\* deployment d; analyze resolves the endpoint
ConcReceive(i, d) ==
    /\ i \in DOMAIN calls
    /\ ~Blocked(i)
    /\ calls[i].pc = "idle"
    /\ calls' = [calls EXCEPT ![i] =
                    IF NotEndpoint(_get_endpoint(d))
                    THEN [@ EXCEPT !.deployment = d, !.pc = "handler", !.raised = TRUE]
                    ELSE [@ EXCEPT !.deployment = d, !.pc = "loop", !.attempt = 0,
                                   !.backoff = settings.INITIAL_BACKOFF]]
    /\ UNCHANGED <<RETRY_ATTEMPTS, DEPLOYMENT_REQUEST_COUNT, DEPLOYMENT_LATENCY>>
    /\ UNCHANGED concFrozen

\* services.py lines 47-100: one iteration of the loop of request i up to
\* its return, its raise or, for a transient outcome, its entry into
\* RETRY_ATTEMPTS.labels(...).inc()
ConcPost(i, o) ==
    /\ i \in DOMAIN calls
    /\ ~Blocked(i)
    /\ calls[i].pc = "loop"
    /\ LET c == calls[i]
           b == Branch(o)
           reason == IF b = "gateway_timeout" THEN "504_timeout" ELSE "request_timeout"
           key == <<c.deployment, reason>>
       IN IF ~InRange(c.attempt)
          THEN calls' = [calls EXCEPT ![i] = [c EXCEPT !.pc = "handler", !.raised = TRUE]]
          ELSE IF b \in {"gateway_timeout", "timeout"}
          THEN /\ LockFree("RETRY_ATTEMPTS", key)
               /\ calls' = [calls EXCEPT ![i] =
                                [c EXCEPT !.pc = "RETRY_ATTEMPTS", !.key = key,
                                          !.read = RETRY_ATTEMPTS[key],
                                          !.transients[reason] = @ + 1]]
          ELSE IF b = "success" /\ o.json
          THEN calls' = [calls EXCEPT ![i] =
                            [c EXCEPT !.pc = "handler",
                                      !.retry_attempts = RetryAttemptsField(c.attempt)]]
          ELSE calls' = [calls EXCEPT ![i] = [c EXCEPT !.pc = "handler", !.raised = TRUE]]
    /\ UNCHANGED <<RETRY_ATTEMPTS, DEPLOYMENT_REQUEST_COUNT, DEPLOYMENT_LATENCY>>
    /\ UNCHANGED concFrozen

\* services.py lines 71-80 and 87-95: inc() writes the value back, then
\* time.sleep(backoff) begins, or the raise
ConcRetryCounted(i) ==
    /\ i \in DOMAIN calls
    /\ ~Blocked(i)
    /\ calls[i].pc = "RETRY_ATTEMPTS"
    /\ RETRY_ATTEMPTS' = [RETRY_ATTEMPTS EXCEPT ![calls[i].key] = calls[i].read + 1]
    /\ calls' = [calls EXCEPT ![i] =
                    IF MayRetry(@.attempt)
                    THEN [@ EXCEPT !.pc = "sleep", !.key = <<>>, !.read = 0]
                    ELSE [@ EXCEPT !.pc = "handler", !.raised = TRUE, !.key = <<>>,
                                   !.read = 0]]
    /\ UNCHANGED <<DEPLOYMENT_REQUEST_COUNT, DEPLOYMENT_LATENCY>>
    /\ UNCHANGED concFrozen

\* services.py lines 77-78 and 92-93: the sleep of request i is over
ConcWake(i) ==
    /\ i \in DOMAIN calls
    /\ calls[i].pc = "sleep"
    /\ calls' = Retried(calls, i)
    /\ UNCHANGED <<RETRY_ATTEMPTS, DEPLOYMENT_REQUEST_COUNT, DEPLOYMENT_LATENCY>>
    /\ UNCHANGED concFrozen

\* main.py lines 81-84 and 96-99: the handler of request i enters
\* DEPLOYMENT_REQUEST_COUNT.labels(...).inc()
ConcCount(i) ==
    /\ i \in DOMAIN calls
    /\ ~Blocked(i)
    /\ calls[i].pc = "handler"
    /\ LET key == <<calls[i].deployment,
                    StatusLabelFor([kind |-> IF calls[i].raised THEN "raise" ELSE "return"])>>
       IN /\ LockFree("DEPLOYMENT_REQUEST_COUNT", key)
          /\ calls' = [calls EXCEPT ![i] =
                            [@ EXCEPT !.pc = "DEPLOYMENT_REQUEST_COUNT", !.key = key,
                                      !.read = DEPLOYMENT_REQUEST_COUNT[key]]]
    /\ UNCHANGED <<RETRY_ATTEMPTS, DEPLOYMENT_REQUEST_COUNT, DEPLOYMENT_LATENCY>>
    /\ UNCHANGED concFrozen

\* inc() writes the value back
ConcCounted(i) ==
    /\ i \in DOMAIN calls
    /\ ~Blocked(i)
    /\ calls[i].pc = "DEPLOYMENT_REQUEST_COUNT"
    /\ DEPLOYMENT_REQUEST_COUNT' =
            [DEPLOYMENT_REQUEST_COUNT EXCEPT ![calls[i].key] = calls[i].read + 1]
    /\ calls' = [calls EXCEPT ![i] = [@ EXCEPT !.pc = "observe", !.key = <<>>, !.read = 0]]
    /\ UNCHANGED <<RETRY_ATTEMPTS, DEPLOYMENT_LATENCY>>
    /\ UNCHANGED concFrozen

\* main.py lines 87-91 and 102-106: the latency is observed (under the
\* histogram's locks) and the request is answered
ConcObserve(i) ==
    /\ i \in DOMAIN calls
    /\ ~Blocked(i)
    /\ calls[i].pc = "observe"
    /\ DEPLOYMENT_LATENCY' = Inc(DEPLOYMENT_LATENCY, calls[i].deployment)
    /\ calls' = [calls EXCEPT ![i].pc = "done"]
    /\ UNCHANGED <<RETRY_ATTEMPTS, DEPLOYMENT_REQUEST_COUNT>>
    /\ UNCHANGED concFrozen

ConcNext ==
    \/ \E i \in 1..MaxCalls, d \in Deployments : ConcReceive(i, d)
    \/ \E i \in 1..MaxCalls, o \in PostOutcomes : ConcPost(i, o)
    \/ \E i \in 1..MaxCalls : ConcRetryCounted(i)
    \/ \E i \in 1..MaxCalls : ConcWake(i)
    \/ \E i \in 1..MaxCalls : ConcCount(i)
    \/ \E i \in 1..MaxCalls : ConcCounted(i)
    \/ \E i \in 1..MaxCalls : ConcObserve(i)

ConcSpec == ConcInit /\ [][ConcNext]_vars

(***************************************************************************)
(* Vocabulary of the properties.                                           *)
(***************************************************************************)
\* analyze is over: it has returned or raised
Terminated == pc \in {"analyzed", "done"}

\* a transient outcome: HTTP 504, or a client-side timeout
TransientOutcome(o) ==
    \/ o.kind = "response" /\ o.status = 504
    \/ o.kind = "exception" /\ o.exc \in {"ReadTimeout", "ConnectTimeout"}

\* a non-transient failure: a connection-level failure that is no timeout,
\* or an HTTP status other than 200 and 504
HardFailure(o) ==
    \/ o.kind = "response" /\ o.status \notin {200, 504}
    \/ o.kind = "exception" /\ o.exc = "ConnectionError"

\* the text last_error holds for a transient outcome
ReasonText(o) == IF o.kind = "response" THEN "504 Gateway Timeout" ELSE "Request Timeout"

TransientCount == Cardinality({i \in 1..Len(posts) : TransientOutcome(posts[i])})

\* the request names a deployment no endpoint is configured for
Recognised(d) == d \in {"lambda", "kubernetes"}
Unconfigured(d) ==
    \/ d = "lambda" /\ settings.LAMBDA_ENDPOINT \in {None, ""}
    \/ d = "kubernetes" /\ settings.KUBERNETES_ENDPOINT \in {None, ""}
Unresolvable == pc # "idle" /\ (~Recognised(deployment) \/ Unconfigured(deployment))

\* the exceptions analyze classifies: the ones it raises itself
Classified(r) ==
    r \in {UnknownDeployment(deployment), AfterAttempts(r.last_error),
           StatusError(r.status_code), CannotReach(deployment), Failed(r.last_error)}

(***************************************************************************)
(* C1: one call of analyze issues at most MAX_RETRIES posts, and its       *)
(* attempt index never exceeds MAX_RETRIES.                                *)
(***************************************************************************)
C1_AtMostMaxRetriesPosts ==
    /\ Len(posts) <= settings.MAX_RETRIES
    /\ attempt <= settings.MAX_RETRIES
    /\ pc \in {"loop", "sleep"} => Len(posts) = attempt + (IF pc = "sleep" THEN 1 ELSE 0)

C1_Witness ==
    /\ pc = "done"
    /\ settings.MAX_RETRIES >= 3
    /\ Len(posts) = settings.MAX_RETRIES

(***************************************************************************)
(* C2: the retry_attempts of a returned result is the number of transient  *)
(* outcomes seen before the 200 in the same call, that is the zero-based   *)
(* index of the successful attempt; it is 0 when the first post succeeds.  *)
(***************************************************************************)
C2_RetryAttemptsCountsTransients ==
    result.kind = "return" =>
        /\ result.retry_attempts = TransientCount
        /\ result.retry_attempts = Len(posts) - 1
        /\ posts[Len(posts)].kind = "response" /\ posts[Len(posts)].status = 200
        /\ \A i \in 1..(Len(posts) - 1) : TransientOutcome(posts[i])

C2_Witness ==
    /\ result.kind = "return"
    /\ result.retry_attempts = 2
    /\ posts[1].kind = "response"
    /\ posts[2].kind = "exception"

(***************************************************************************)
(* C3: a transient outcome at attempt a is followed by a sleep and another *)
(* attempt exactly when a < MAX_RETRIES - 1, and by a raise when           *)
(* a = MAX_RETRIES - 1; the step is the same for a 504 and for a timeout:  *)
(* the sleep lasts the current backoff, the backoff grows by the factor    *)
(* 1.5 and the attempt index by one.                                       *)
(***************************************************************************)
C3_TransientStep ==
    [][ /\ (pc = "loop" /\ posts' # posts /\ TransientOutcome(posts'[Len(posts')])) =>
            IF attempt < settings.MAX_RETRIES - 1
            THEN /\ pc' = "sleep"
                 /\ result' = NoResult
                 /\ <<attempt', backoff', sleeps'>> = <<attempt, backoff, sleeps>>
            ELSE /\ attempt = settings.MAX_RETRIES - 1
                 /\ pc' = "analyzed"
                 /\ result'.kind = "raise"
                 /\ sleeps' = sleeps
        /\ pc = "sleep" =>
                 /\ pc' = "loop"
                 /\ sleeps' = Append(sleeps, backoff)
                 /\ 2 * backoff' = 3 * backoff
                 /\ attempt' = attempt + 1
                 /\ attempt' < settings.MAX_RETRIES
                 /\ posts' = posts
                 /\ result' = NoResult
      ]_vars

C3_Witness ==
    /\ pc = "loop"
    /\ Len(sleeps) = 2
    /\ posts[1].kind = "response" /\ posts[1].status = 504
    /\ posts[2].kind = "exception" /\ posts[2].exc = "ConnectTimeout"

(***************************************************************************)
(* C4: a non-transient failure at any attempt ends the call with a raise   *)
(* at that attempt: it is the last post of the call and no sleep follows   *)
(* it, whatever MAX_RETRIES is; a refused connection at the first attempt  *)
(* ends the call after exactly one post.                                   *)
(***************************************************************************)
C4_HardFailureEndsCall ==
    \A i \in 1..Len(posts) :
        HardFailure(posts[i]) =>
            /\ i = Len(posts)
            /\ Terminated
            /\ result.kind = "raise"
            /\ Len(sleeps) = i - 1
            /\ attempt = i - 1

C4_Witness ==
    /\ pc = "done"
    /\ settings.MAX_RETRIES = 3
    /\ Len(posts) = 1
    /\ posts[1].exc = "ConnectionError"
    /\ result = CannotReach(deployment)
    /\ sleeps = <<>>

(***************************************************************************)
(* C5: when no endpoint can be resolved for the request's deployment (the  *)
(* name is not recognised, or its URL is unset or empty), analyze raises   *)
(* at once: no post is issued, no sleep happens, no time passes and the    *)
(* retry counter is not incremented.                                       *)
(***************************************************************************)
C5_UnresolvableFailsAtOnce ==
    Unresolvable =>
        /\ pc \in {"analyze", "analyzed", "done"}
        /\ posts = <<>>
        /\ sleeps = <<>>
        /\ clock = 0
        /\ \A k \in DOMAIN RETRY_ATTEMPTS : RETRY_ATTEMPTS[k] = 0
        /\ Terminated => result = UnknownDeployment(deployment)

C5_Witness ==
    /\ pc = "done"
    /\ deployment = "kubernetes"
    /\ settings.KUBERNETES_ENDPOINT = ""
    /\ settings.MAX_RETRIES = 3
    /\ result = UnknownDeployment("kubernetes")

(***************************************************************************)
(* C6: analyze ends in a returned result or in a failure it has            *)
(* classified; no other exception reaches its caller.                      *)
(***************************************************************************)
C6_OnlySuccessOrClassifiedFailure ==
    Terminated => result.kind = "return" \/ Classified(result)

(***************************************************************************)
(* C7: a call of analyze that has started ends, for every sequence of      *)
(* post outcomes.                                                          *)
(***************************************************************************)
C7_AnalyzeTerminates == (pc = "analyze") ~> Terminated

C7_Witness ==
    /\ pc = "analyzed"
    /\ settings.MAX_RETRIES = 3
    /\ Len(posts) = 3
    /\ Len(sleeps) = 2

(***************************************************************************)
(* C8: the failure for a recognised deployment whose URL is unset or empty *)
(* is told apart from the failure for an unknown deployment name: it is    *)
(* not reported as an unknown deployment.                                  *)
(***************************************************************************)
C8_UnconfiguredToldApartFromUnknown ==
    (Terminated /\ Recognised(deployment) /\ Unconfigured(deployment)) =>
        /\ result.kind = "raise"
        /\ result.template # UnknownDeployment(deployment).template

(***************************************************************************)
(* C9: a request whose deployment cannot be resolved is answered with a    *)
(* 4xx status.                                                             *)
(***************************************************************************)
C9_UnresolvableIs4xx ==
    (pc = "done" /\ Unresolvable) => http.status_code \in 400..499

(***************************************************************************)
(* C10: a call whose last post ended in a transient outcome fails only     *)
(* after MAX_RETRIES posts that all ended in a transient outcome; the      *)
(* handler answers with a 5xx status whose detail carries the number of    *)
(* attempts made and the reason of the last transient outcome.             *)
(***************************************************************************)
C10_TransientSurfacesAfterExhaustion ==
    (Terminated /\ posts # <<>> /\ TransientOutcome(posts[Len(posts)])) =>
        /\ Len(posts) = settings.MAX_RETRIES
        /\ \A i \in 1..Len(posts) : TransientOutcome(posts[i])
        /\ result = AfterAttempts(ReasonText(posts[Len(posts)]))
        /\ result.attempts = Len(posts)
        /\ pc = "done" => /\ http.status_code \in 500..599
                          /\ http.detail = result

C10_Witness ==
    /\ pc = "done"
    /\ Len(posts) = 3
    /\ posts[1].kind = "exception"
    /\ posts[3].kind = "response" /\ posts[3].status = 504
    /\ http.status_code = 500
    /\ http.detail.last_error = "504 Gateway Timeout"
    /\ http.detail.attempts = 3

(***************************************************************************)
(* C11 as stated: the sleep before attempt k (0-indexed) lasts             *)
(* INITIAL_BACKOFF * 1.5^k.  The i-th sleep of a call is the one before    *)
(* attempt index i.                                                        *)
(***************************************************************************)
C11_SleepBeforeAttemptK ==
    \A i \in 1..Len(sleeps) : sleeps[i] * (2 ^ i) = settings.INITIAL_BACKOFF * (3 ^ i)

(***************************************************************************)
(* C11 as amended: the sleep before attempt k (0-indexed, k >= 1) lasts    *)
(* INITIAL_BACKOFF * 1.5^(k-1); with MAX_RETRIES = 3, INITIAL_BACKOFF = 1  *)
(* second and the responses 504, 504, 200 exactly two sleeps happen, of 1  *)
(* and 1.5 seconds in that order.                                          *)
(***************************************************************************)
C11_BackoffSequence ==
    /\ \A i \in 1..Len(sleeps) :
            sleeps[i] * (2 ^ (i - 1)) = settings.INITIAL_BACKOFF * (3 ^ (i - 1))
    /\ ( /\ Terminated
         /\ settings.MAX_RETRIES = 3
         /\ settings.INITIAL_BACKOFF = TimeScale
         /\ Len(posts) = 3
         /\ \A i \in 1..3 : posts[i].kind = "response"
         /\ <<posts[1].status, posts[2].status, posts[3].status>> = <<504, 504, 200>> )
       => (Len(sleeps) = 2 /\ sleeps[1] = TimeScale /\ 2 * sleeps[2] = 3 * TimeScale)

C11_Witness ==
    /\ pc = "done"
    /\ settings.MAX_RETRIES = 3
    /\ settings.INITIAL_BACKOFF = TimeScale
    /\ Len(posts) = 3
    /\ posts[1].status = 504 /\ posts[2].status = 504
    /\ posts[3].status = 200 /\ posts[3].json
    /\ Len(sleeps) = 2
    /\ result.retry_attempts = 2

(***************************************************************************)
(* C12: within one call the backoff never decreases: no step of the retry  *)
(* loop lowers it, and in every state of the loop it is at least           *)
(* INITIAL_BACKOFF and at least every value it was slept with before.      *)
(***************************************************************************)
C12_BackoffNeverDecreases ==
    /\ [][(pc \in {"loop", "sleep"}) => (backoff' >= backoff)]_vars
    /\ [](pc \in {"loop", "sleep", "analyzed", "done"} /\ ~Unresolvable =>
            /\ backoff >= settings.INITIAL_BACKOFF
            /\ \A i \in 1..Len(sleeps) : backoff >= sleeps[i])

C12_Witness ==
    /\ pc = "loop"
    /\ Len(sleeps) = 2
    /\ backoff > sleeps[2]
    /\ sleeps[2] > sleeps[1]

(***************************************************************************)
(* Vocabulary of the properties of the load-testing client.                *)
(***************************************************************************)
\* run_benchmark has returned
Returned_ == bpc \in {"returned", "reported", "crashed"}

\* log_stats is over: it returned or raised
Logged == bpc \in {"reported", "crashed"}

\* the calls that are over, those that succeeded and those that failed
Over == {i \in DOMAIN futures : futures[i].state \in {"finished", "yielded"}}
Succeeded == {i \in Over : ~futures[i].value.none}
FailedCalls == {i \in Over : futures[i].value.none}
Yielded == {i \in DOMAIN futures : futures[i].state = "yielded"}

\* how often latency t is in the collection
Occurrences(t) == Cardinality({k \in DOMAIN latencies : latencies[k] = t})

\* the latencies measured or collected so far
Measured == {futures[i].value.latency : i \in Succeeded} \cup {latencies[k] : k \in DOMAIN latencies}

(***************************************************************************)
(* C13: when all NUM_REQUESTS calls succeed, run_benchmark returns exactly *)
(* NUM_REQUESTS latencies and no error was counted, whatever the           *)
(* latencies measured, zero included.                                      *)
(***************************************************************************)
C13_AllSucceedAllCollected ==
    (Returned_ /\ Cardinality(Succeeded) = bench.NUM_REQUESTS) =>
        /\ Len(latencies) = bench.NUM_REQUESTS
        /\ errors_logged = 0

(***************************************************************************)
(* C14: when run_benchmark has returned, every call is counted exactly     *)
(* once, as a latency or as an error: their numbers add up to              *)
(* NUM_REQUESTS, and when all calls failed there is no latency and         *)
(* NUM_REQUESTS errors.                                                    *)
(***************************************************************************)
C14_EachCallCountedOnce ==
    Returned_ =>
        /\ Len(latencies) + errors_logged = bench.NUM_REQUESTS
        /\ Len(latencies) = Cardinality(Succeeded)
        /\ errors_logged = Cardinality(FailedCalls)
        /\ Cardinality(FailedCalls) = bench.NUM_REQUESTS =>
                latencies = <<>> /\ errors_logged = bench.NUM_REQUESTS

(***************************************************************************)
(* C15: failed calls do not abort the batch: when run_benchmark has        *)
(* returned after some calls failed, every call was issued and is over,    *)
(* and every successful call's latency is in the returned collection.      *)
(***************************************************************************)
C15_FailureDoesNotAbortBatch ==
    (Returned_ /\ FailedCalls # {}) =>
        /\ issued = bench.NUM_REQUESTS
        /\ Over = 1..bench.NUM_REQUESTS
        /\ \A i \in Succeeded :
                Occurrences(futures[i].value.latency) =
                    Cardinality({j \in Succeeded :
                                    futures[j].value.latency = futures[i].value.latency})

(***************************************************************************)
(* C16: the aggregate is a function of the calls' outcomes, not of the     *)
(* order they complete in: at every moment the collection holds each       *)
(* latency value exactly as often as yielded calls returned it (as a       *)
(* truthy value), the completed counter is the number of yielded calls and *)
(* the number of errors the number of calls that returned None.            *)
(***************************************************************************)
C16_AggregateIndependentOfOrder ==
    /\ \A t \in Measured :
            Occurrences(t) = Cardinality({i \in Yielded : Truthy(futures[i].value)
                                                         /\ futures[i].value.latency = t})
    /\ completed = Cardinality(Yielded)
    /\ errors_logged = Cardinality(FailedCalls)

C16_Witness ==
    /\ bpc = "returned"
    /\ bench.NUM_REQUESTS = 3
    /\ futures[1].value = Latency(2)
    /\ futures[2].value = NoneValue
    /\ futures[3].value = Latency(1)
    /\ latencies = <<1, 2>>

(***************************************************************************)
(* C17: run_benchmark issues exactly NUM_REQUESTS calls, and at no moment  *)
(* are more than CONCURRENCY of them running.                              *)
(***************************************************************************)
C17_ExactlyNCallsAtMostConcurrencyRunning ==
    /\ Cardinality(RunningCalls) <= bench.CONCURRENCY
    /\ issued <= bench.NUM_REQUESTS
    /\ issued = Cardinality({i \in DOMAIN futures : futures[i].state # "queued"})
    /\ Returned_ => issued = bench.NUM_REQUESTS

C17_Witness ==
    /\ bench.NUM_REQUESTS = 3
    /\ bench.CONCURRENCY = 2
    /\ Len(futures) = 3
    /\ Cardinality(RunningCalls) = 2
    /\ futures[3].state = "queued"

(***************************************************************************)
(* C18: run_benchmark returns only when every submitted call is over and   *)
(* has been collected, and it does return when every call ends.            *)
(***************************************************************************)
C18_ReturnsAfterAllCalls ==
    /\ [](Returned_ => /\ Len(futures) = bench.NUM_REQUESTS
                       /\ Yielded = 1..bench.NUM_REQUESTS
                       /\ completed = bench.NUM_REQUESTS)
    /\ <>Returned_

C18_Witness ==
    /\ bpc = "returned"
    /\ bench.NUM_REQUESTS = 3
    /\ bench.CONCURRENCY = 1
    /\ completed = 3

(***************************************************************************)
(* C19: log_stats on an empty collection writes the "no successful         *)
(* requests" line and nothing else: no statistics block, no cost           *)
(* estimate.                                                               *)
(***************************************************************************)
C19_EmptyGivesNoData ==
    (Logged /\ latencies = <<>>) =>
        /\ bpc = "reported"
        /\ report = <<NoDataLine(bench.name)>>

C19_Witness ==
    /\ bpc = "reported"
    /\ latencies = <<>>
    /\ bench.NUM_REQUESTS = 3
    /\ errors_logged = 3
    /\ Len(report) = 1

(***************************************************************************)
(* C20: log_stats on a collection holding the single sample x reports      *)
(* avg = min = max = p50 = p95 = x.                                        *)
(***************************************************************************)
C20_SingleSample ==
    (Logged /\ Len(latencies) = 1) =>
        /\ bpc = "reported"
        /\ \E k \in DOMAIN report :
                /\ report[k].kind = "stats"
                /\ report[k].count = 1
                /\ report[k].sum = latencies[1]
                /\ report[k].min = latencies[1]
                /\ report[k].max = latencies[1]
                /\ report[k].p50x2 = 2 * latencies[1]
                /\ report[k].p95x20 = 20 * latencies[1]

(***************************************************************************)
(* Vocabulary of the properties of the answer and the metrics.             *)
(***************************************************************************)
\* the posts of this call that ended in HTTP 504, and in a client timeout
Count504 ==
    Cardinality({i \in 1..Len(posts) : posts[i].kind = "response" /\ posts[i].status = 504})
CountTimeout ==
    Cardinality({i \in 1..Len(posts) :
                    posts[i].kind = "exception" /\ posts[i].exc \in {"ReadTimeout", "ConnectTimeout"}})

\* the requests counted for deployment d, over both statuses
RequestsCounted(d) ==
    DEPLOYMENT_REQUEST_COUNT[<<d, "success">>] + DEPLOYMENT_REQUEST_COUNT[<<d, "error">>]

\* the fields of a Success
SuccessFields == {"sentiment", "confidence", "deployment", "retry_attempts", "response_time_ms"}

(***************************************************************************)
(* C25: what the client of /analyze receives is a complete Success (a 200  *)
(* whose body holds sentiment, confidence, deployment, retry_attempts and  *)
(* response_time_ms, none of them null) or a Failure (an error status and  *)
(* no result body), also when the endpoint answered 200 with a body that   *)
(* lacks a field.                                                          *)
(***************************************************************************)
C25_CompleteSuccessOrFailure ==
    pc = "done" =>
        \/ /\ http.status_code = 200
           /\ SuccessFields \subseteq DOMAIN http.body
           /\ \A k \in {"sentiment", "confidence", "deployment"} : http.body[k] # None
        \/ /\ http.status_code \in 400..599
           /\ http.body = NoDict
           /\ http.detail.kind = "raise"

C25_Witness ==
    /\ pc = "done"
    /\ posts # <<>>
    /\ posts[Len(posts)].status = 200
    /\ posts[Len(posts)].json
    /\ "sentiment" \notin DOMAIN posts[Len(posts)].body
    /\ result.kind = "return"
    /\ http.status_code = 500

(***************************************************************************)
(* C26: in every 200 answer the deployment field is the deployment of the  *)
(* request, and retry_attempts and response_time_ms are analyze's own      *)
(* values (the attempt index, the time since the call began), also when    *)
(* the remote body holds keys of these names.                              *)
(***************************************************************************)
C26_OwnFieldsWin ==
    (pc = "done" /\ http.status_code = 200) =>
        /\ http.body["deployment"] = deployment
        /\ http.body["retry_attempts"] = attempt
        /\ http.body["retry_attempts"] = Len(posts) - 1
        /\ http.body["response_time_ms"] = 1000 * (clock - start_time)

C26_Witness ==
    /\ pc = "done"
    /\ http.status_code = 200
    /\ Len(posts) = 2
    /\ {"retry_attempts", "response_time_ms", "deployment"} \subseteq DOMAIN posts[2].body
    /\ http.body["retry_attempts"] = 1
    /\ http.body["deployment"] = "kubernetes"

(***************************************************************************)
(* C27 as stated: the request counter is incremented and a latency is      *)
(* observed on every attempt, so a call that made k >= 1 attempts has      *)
(* counted k requests and observed k latencies.                            *)
(***************************************************************************)
C27_CountedPerAttempt ==
    (pc = "done" /\ Len(posts) >= 1) =>
        /\ RequestsCounted(deployment) = Len(posts)
        /\ DEPLOYMENT_LATENCY[deployment] = Len(posts)

(***************************************************************************)
(* C27 as amended: the request counter is incremented and a latency is     *)
(* observed once per /analyze request, when the handler answers, whatever  *)
(* the number of attempts; the request is counted as a success when        *)
(* analyze returned and as an error when it raised.  A call that gets 504, *)
(* 504, 200 produces one increment, labelled success.                      *)
(***************************************************************************)
C27_CountedOncePerRequest ==
    /\ \A d \in Deployments :
            /\ RequestsCounted(d) = IF pc = "done" /\ d = deployment THEN 1 ELSE 0
            /\ DEPLOYMENT_LATENCY[d] = RequestsCounted(d)
    /\ pc = "done" =>
            DEPLOYMENT_REQUEST_COUNT[<<deployment,
                IF result.kind = "return" THEN "success" ELSE "error">>] = 1

C27_Witness ==
    /\ pc = "done"
    /\ Len(posts) = 3
    /\ posts[1].status = 504 /\ posts[2].status = 504 /\ posts[3].status = 200
    /\ result.kind = "return"
    /\ DEPLOYMENT_REQUEST_COUNT[<<deployment, "success">>] = 1
    /\ DEPLOYMENT_LATENCY[deployment] = 1

(***************************************************************************)
(* C28: the retry counter of the request's deployment holds, per reason,   *)
(* the number of posts of the call that ended in that transient outcome    *)
(* (504, client timeout), the one of the last attempt included; nothing    *)
(* else increments it.                                                     *)
(***************************************************************************)
C28_RetryCounterCountsTransients ==
    \A k \in DOMAIN RETRY_ATTEMPTS :
        RETRY_ATTEMPTS[k] =
            IF k[1] # deployment THEN 0
            ELSE IF k[2] = "504_timeout" THEN Count504
            ELSE CountTimeout

C28_Witness ==
    /\ pc = "done"
    /\ settings.MAX_RETRIES = 3
    /\ Len(posts) = 3
    /\ result.kind = "raise"
    /\ posts[3].status = 504
    /\ RETRY_ATTEMPTS[<<deployment, "504_timeout">>] = 2
    /\ RETRY_ATTEMPTS[<<deployment, "request_timeout">>] = 1

(***************************************************************************)
(* C30: the response_time_ms of a returned result is measured from the     *)
(* start of the call: with retry_attempts = k it covers the k sleeps that  *)
(* came before the successful attempt, and every post of the call.         *)
(***************************************************************************)
C30_ResponseTimeCoversSleeps ==
    result.kind = "return" =>
        /\ Len(sleeps) = result.retry_attempts
        /\ result.response_time_ms >= 1000 * Sum(sleeps)
        /\ result.response_time_ms = 1000 * (clock - start_time)

C30_Witness ==
    /\ result.kind = "return"
    /\ result.retry_attempts = 2
    /\ clock > start_time
    /\ result.response_time_ms = 1000 * Sum(sleeps)

(***************************************************************************)
(* Vocabulary of the properties of the statistics, the costs and the       *)
(* verdict.                                                                *)
(***************************************************************************)
\* log_stats has reported the statistics of the run main is in
StatsReported == bpc \in {"reported", "finished"} /\ latencies # <<>>

\* the block of a kind that was written under a name
Block(kind, name) ==
    report[CHOOSE i \in DOMAIN report : report[i].kind = kind /\ report[i].name = name]

HasBlock(kind, name) ==
    \E i \in DOMAIN report : report[i].kind = kind /\ report[i].name = name

\* ceil(0.95 * n)
NearestRank(n) == (19 * n + 19) \div 20

\* the same samples in another order
Exchanged(l) == {[l EXCEPT ![i] = l[j], ![j] = l[i]] : i, j \in DOMAIN l}

Times(l, v) == Cardinality({i \in DOMAIN l : l[i] = v})

Reorderings(l) ==
    {q \in [DOMAIN l -> {l[i] : i \in DOMAIN l}] :
        \A v \in {l[i] : i \in DOMAIN l} : Times(q, v) = Times(l, v)}

\* avg, min, max, p50 and p95 of a collection, as log_stats computes them
Summary(l) ==
    [count |-> Len(l), sum |-> Sum(l), min |-> Min(l), max |-> Max(l),
     p50x2 |-> Median2(l),
     p95x20 |-> IF Len(l) = 1 THEN 20 * l[1] ELSE Quantiles18Times20(l)]

Reported(b) ==
    [count |-> b.count, sum |-> b.sum, min |-> b.min, max |-> b.max,
     p50x2 |-> b.p50x2, p95x20 |-> b.p95x20]

\* a / b <= c / d, for positive b and d
FractionLeq(a, b, c, d) == a * d <= c * b

(***************************************************************************)
(* C21: the p95 log_stats reports is the nearest-rank percentile, the      *)
(* sample at rank ceil(0.95 * n) of the sorted collection; for the twenty  *)
(* samples 1, 2, ..., 20 it is the 19th.                                   *)
(***************************************************************************)
C21_P95IsNearestRank ==
    StatsReported =>
        Block("stats", bench.name).p95x20
            = 20 * Sorted(latencies)[NearestRank(Len(latencies))]

(***************************************************************************)
(* C22: the statistics do not depend on the order of the samples: every    *)
(* collection that holds the same samples in another order has the avg,    *)
(* min, max, p50 and p95 that were reported.                               *)
(***************************************************************************)
C22_SummaryInvariantToOrder ==
    StatsReported =>
        /\ \A q \in Exchanged(latencies) :
                Summary(q) = Reported(Block("stats", bench.name))
        /\ Len(latencies) <= MaxSamples =>
                \A q \in Reorderings(latencies) :
                    Summary(q) = Reported(Block("stats", bench.name))

C22_Witness ==
    /\ StatsReported
    /\ latencies = <<2, 1, 1>>
    /\ Block("stats", bench.name).p50x2 = 2
    /\ Block("stats", bench.name).min = 1

(***************************************************************************)
(* C23: the verdict names the target with the lower avg as the winner and  *)
(* reports the ratio of the higher avg to the lower one: the ratio is at   *)
(* least 1, and a target whose avg is strictly higher never wins.          *)
(***************************************************************************)
C23_VerdictNamesFasterTarget ==
    HasBlock("verdict", "Kubernetes") \/ HasBlock("verdict", "AWS Lambda") =>
        LET v == IF HasBlock("verdict", "Kubernetes") THEN Block("verdict", "Kubernetes")
                 ELSE Block("verdict", "AWS Lambda")
            ls == Sum(lambda_latencies)
            ln == Len(lambda_latencies)
            ks == Sum(k8s_latencies)
            kn == Len(k8s_latencies)
            k8sLower == ks * ln < ls * kn
            lambdaLower == ls * kn < ks * ln
        IN /\ ~(HasBlock("verdict", "Kubernetes") /\ HasBlock("verdict", "AWS Lambda"))
           /\ ln > 0 /\ kn > 0
           /\ k8sLower => v.name = "Kubernetes"
           /\ lambdaLower => v.name = "AWS Lambda"
           /\ v.speedup_num >= v.speedup_den
           \* ratio = max(avg) / min(avg)
           /\ IF k8sLower
              THEN v.speedup_num * (ks * ln) = v.speedup_den * (ls * kn)
              ELSE v.speedup_num * (ls * kn) = v.speedup_den * (ks * ln)

C23_Witness ==
    /\ bpc = "finished"
    /\ lambda_latencies = <<2, 2>>
    /\ k8s_latencies = <<1, 2, 1>>
    /\ HasBlock("verdict", "Kubernetes")
    /\ Block("verdict", "Kubernetes").speedup_num = 12
    /\ Block("verdict", "Kubernetes").speedup_den = 8

(***************************************************************************)
(* C24: the cost per million requests reported for AWS Lambda is           *)
(* million * avg * memory * price per GB-second + million * price per      *)
(* request: it is at least the request charge, it does not decrease when   *)
(* the avg grows, and the fixed monthly cost is zero.  The monthly cost    *)
(* reported for the cluster is (EKS hourly + EC2 hourly) * 24 * 30,        *)
(* whatever the samples.                                                   *)
(***************************************************************************)
C24_CostFormulas ==
    /\ (StatsReported /\ bench.name = "AWS Lambda") =>
            LET c == Block("cost_lambda", "AWS Lambda")
                n == Len(latencies)
            IN /\ HasBlock("cost_lambda", "AWS Lambda")
               /\ c.cost_num * n = c.cost_den * (Sum(latencies) * LAMBDA_MEMORY_GB
                                                    * LAMBDA_GB_SEC_PRICE
                                                 + n * LAMBDA_REQ_PRICE)
               /\ c.cost_num >= c.cost_den * LAMBDA_REQ_PRICE
               /\ c.monthly = 0
               /\ \A q \in SampleLists \ {<<>>} :
                    FractionLeq(Sum(latencies), n, Sum(q), Len(q)) =>
                        LET cq == estimate_costs("AWS Lambda", Sum(q), Len(q))
                        IN FractionLeq(c.cost_num, c.cost_den, cq.cost_num, cq.cost_den)
    /\ (StatsReported /\ bench.name = "Kubernetes (EKS)") =>
            /\ HasBlock("cost_eks", "Kubernetes (EKS)")
            /\ Block("cost_eks", "Kubernetes (EKS)").monthly
                    = (EKS_HOURLY_PRICE + EC2_HOURLY_PRICE) * 24 * 30
            /\ Block("cost_eks", "Kubernetes (EKS)").cost_num = 0

C24_Witness ==
    /\ bpc = "finished"
    /\ lambda_latencies = <<1, 2>>
    /\ k8s_latencies = <<2, 2, 2>>
    /\ Block("cost_lambda", "AWS Lambda").cost_num = 3 * 3 * 166667 + 2 * 2000
    /\ Block("cost_lambda", "AWS Lambda").cost_den = 2
    /\ Block("cost_eks", "Kubernetes (EKS)").monthly = 869760

(***************************************************************************)
(* C29: the metrics lose no update when requests run concurrently: once    *)
(* all of N concurrent requests are answered, in whatever interleaving,    *)
(* the request counters of every deployment add up to the number of        *)
(* requests for it (as do its latency observations), and the retry counter *)
(* of every deployment and reason holds the number of transient outcomes   *)
(* of that reason its requests observed.                                   *)
(***************************************************************************)
CallsFor(d) == {i \in DOMAIN calls : calls[i].deployment = d}

TransientsSeen(d, reason) ==
    Sum([i \in 1..Len(calls) |->
            IF calls[i].deployment = d THEN calls[i].transients[reason] ELSE 0])

AllAnswered == \A i \in DOMAIN calls : calls[i].pc = "done"

C29_NoLostUpdate ==
    AllAnswered =>
        /\ \A d \in Deployments :
                /\ RequestsCounted(d) = Cardinality(CallsFor(d))
                /\ DEPLOYMENT_LATENCY[d] = Cardinality(CallsFor(d))
                /\ DEPLOYMENT_REQUEST_COUNT[<<d, "error">>]
                        = Cardinality({i \in CallsFor(d) : calls[i].raised})
        /\ \A k \in DOMAIN RETRY_ATTEMPTS :
                RETRY_ATTEMPTS[k] = TransientsSeen(k[1], k[2])

C29_Witness ==
    /\ Len(calls) = 2
    /\ AllAnswered
    /\ calls[1].deployment = "lambda"
    /\ calls[2].deployment = "lambda"
    /\ calls[1].raised /\ calls[2].raised
    /\ RETRY_ATTEMPTS[<<"lambda", "504_timeout">>] = 4
    /\ DEPLOYMENT_REQUEST_COUNT[<<"lambda", "error">>] = 2

(***************************************************************************)
(* C33 as stated: in every terminal outcome of a call the number of sleeps *)
(* is one less than the number of posts.                                   *)
(***************************************************************************)
C33_SleepsOneLessThanPosts ==
    Terminated => Len(sleeps) = Len(posts) - 1

(***************************************************************************)
(* C33 as amended: in every terminal outcome of a call that issued at      *)
(* least one post the number of sleeps is one less than the number of      *)
(* posts (a call that issued none slept never); a sleep only happens       *)
(* between two attempts, none follows the last one, no post follows the    *)
(* first 200, and a returned result took retry_attempts + 1 posts.         *)
(***************************************************************************)
C33_SleepsBetweenAttempts ==
    /\ [](Terminated => Len(sleeps) = (IF posts = <<>> THEN 0 ELSE Len(posts) - 1))
    /\ [](pc = "loop" => Len(sleeps) = Len(posts))
    /\ [](pc = "sleep" => Len(sleeps) = Len(posts) - 1)
    /\ [](\A i \in 1..Len(posts) :
            (posts[i].kind = "response" /\ posts[i].status = 200) => i = Len(posts))
    /\ [](result.kind = "return" => Len(posts) = result.retry_attempts + 1)
    /\ [][Terminated => (posts' = posts /\ sleeps' = sleeps)]_vars

C33_Witness ==
    /\ pc = "done"
    /\ result.kind = "raise"
    /\ Len(posts) = 3
    /\ Len(sleeps) = 2
    /\ posts[3].kind = "exception" /\ posts[3].exc = "ReadTimeout"

(***************************************************************************)
(* C34: an answered /analyze request has incremented the request counter   *)
(* exactly once, under success exactly when analyze returned and under     *)
(* error exactly when it raised, and has observed exactly one latency,     *)
(* whatever the number of posts; a 200 is answered only to a request       *)
(* counted as a success.                                                   *)
(***************************************************************************)
C34_OneCountPerRequest ==
    /\ pc = "done" =>
            /\ DEPLOYMENT_REQUEST_COUNT[<<deployment, "success">>]
                    = (IF result.kind = "return" THEN 1 ELSE 0)
            /\ DEPLOYMENT_REQUEST_COUNT[<<deployment, "error">>]
                    = (IF result.kind = "raise" THEN 1 ELSE 0)
            /\ DEPLOYMENT_LATENCY[deployment] = 1
            /\ http.status_code = 200 =>
                    DEPLOYMENT_REQUEST_COUNT[<<deployment, "success">>] = 1
    /\ pc # "done" =>
            /\ \A k \in DOMAIN DEPLOYMENT_REQUEST_COUNT : DEPLOYMENT_REQUEST_COUNT[k] = 0
            /\ \A d \in Deployments : DEPLOYMENT_LATENCY[d] = 0

C34_Witness ==
    /\ pc = "done"
    /\ Len(posts) = 3
    /\ result.kind = "raise"
    /\ DEPLOYMENT_REQUEST_COUNT[<<deployment, "error">>] = 1
    /\ DEPLOYMENT_REQUEST_COUNT[<<deployment, "success">>] = 0
    /\ DEPLOYMENT_LATENCY[deployment] = 1

C35_StoredLatenciesNonzero ==
    /\ \A k \in DOMAIN latencies : latencies[k] # 0
    /\ Len(latencies) = Cardinality({i \in Yielded : ~futures[i].value.none
                                                      /\ futures[i].value.latency # 0})
    /\ (Returned_ /\ latencies # <<>>) => Sum(latencies) > 0

C35_Witness ==
    /\ bpc = "returned"
    /\ bench.NUM_REQUESTS = 2
    /\ futures[1].value = Latency(0)
    /\ futures[2].value = Latency(2)
    /\ latencies = <<2>>

(***************************************************************************)
(* C36: the reported statistics are ordered and bounded by the data:       *)
(* min <= p50 <= p95 <= max and min <= avg <= max.                         *)
(***************************************************************************)
C36_StatsOrdered ==
    StatsReported =>
        LET b == Block("stats", bench.name)
        IN /\ 2 * b.min <= b.p50x2
           /\ 10 * b.p50x2 <= b.p95x20
           /\ b.p95x20 <= 20 * b.max
           /\ b.count * b.min <= b.sum
           /\ b.sum <= b.count * b.max

(***************************************************************************)
(* C37: the verdict is reported only when both runs returned at least one  *)
(* latency; a cost estimate is reported for a target only when its         *)
(* statistics were; a target whose run returned no latency gets the "no    *)
(* successful requests" line and no other block.                           *)
(***************************************************************************)
HasVerdict == HasBlock("verdict", "Kubernetes") \/ HasBlock("verdict", "AWS Lambda")

\* log_stats was called for the run and is over
LoggedFor(run) ==
    \/ bench.deployment_type = run.deployment_type /\ bpc \in {"reported", "finished"}
    \/ run.deployment_type = "lambda" /\ bench.deployment_type = "kubernetes"

SamplesOf(run) == IF run.deployment_type = "lambda" THEN lambda_latencies ELSE k8s_latencies

BlocksNamed(name) == {i \in DOMAIN report : report[i].name = name}

C37_ReportedOnlyWithSamples ==
    /\ HasVerdict => (lambda_latencies # <<>> /\ k8s_latencies # <<>> /\ bpc = "finished")
    /\ bpc = "finished" => (HasVerdict <=> (lambda_latencies # <<>> /\ k8s_latencies # <<>>))
    /\ \A run \in Runs :
            /\ HasBlock("cost_lambda", run.name) \/ HasBlock("cost_eks", run.name)
                    => HasBlock("stats", run.name) /\ SamplesOf(run) # <<>>
            /\ (LoggedFor(run) /\ SamplesOf(run) = <<>>) =>
                    /\ HasBlock("no_data", run.name)
                    /\ Cardinality(BlocksNamed(run.name)) = 1

C37_Witness ==
    /\ bpc = "finished"
    /\ lambda_latencies = <<>>
    /\ k8s_latencies = <<1, 2>>
    /\ Len(report) = 3
    /\ report[1] = NoDataLine("AWS Lambda")
    /\ report[2].kind = "stats"
    /\ report[3].kind = "cost_eks"

(***************************************************************************)
(* tests/test_api_with_retry_for_lambda.py, call_api_with_retry, run on    *)
(* the outcomes the service's analyze met                                  *)
(***************************************************************************)
\* mutant of ClientMayRetry: the client sleeps after its last attempt too
ClientMayRetryIncludingLast(a, m) == a < m

\* `if attempt < max_retries - 1`
ClientMayRetry(a, m) == a < m - 1

\* the branch of the try statement one requests.post ends in
ClientBranch(o) ==
    IF o.kind = "response"
    THEN IF o.status = 200 THEN "success"
         ELSE IF o.status = 504 THEN "gateway_timeout"
         ELSE "other_status"
    ELSE IF "Timeout" \in ExceptionBases(o.exc) THEN "timeout"
         ELSE "exception"

\* the script is called once analyze is over, with the service's
\* max_retries and initial backoff
ClientCall ==
    /\ client.pc = "idle"
    /\ pc = "analyzed"
    /\ client' = [NoClient EXCEPT !.pc = "loop", !.max_retries = settings.MAX_RETRIES,
                                  !.backoff = settings.INITIAL_BACKOFF]
    /\ UNCHANGED <<dispatchVars, benchVars, mainVars, calls, batch>>

\* lines 30-69: one iteration, fed the outcome the service's post of the
\* same rank ended in
ClientPost ==
    /\ client.pc = "loop"
    /\ client.attempt < client.max_retries
    /\ client.requests < Len(posts)
    /\ LET o == posts[client.requests + 1]
           b == ClientBranch(o)
           c == [client EXCEPT !.requests = @ + 1]
       IN client' =
            IF b = "success" /\ o.json
            THEN [c EXCEPT !.pc = "returned", !.result = ClientJson(o.body)]
            ELSE IF b \in {"gateway_timeout", "timeout"}
                    /\ ClientMayRetry(c.attempt, c.max_retries)
            THEN [c EXCEPT !.pc = "sleep"]
            ELSE [c EXCEPT !.pc = "returned", !.result = ClientNone]
    /\ UNCHANGED <<dispatchVars, benchVars, mainVars, calls, batch>>

\* lines 47-48 and 61-62: time.sleep(backoff); backoff *= 1.5
ClientSleep ==
    /\ client.pc = "sleep"
    /\ client' = [client EXCEPT !.pc = "loop", !.sleeps = Append(@, client.backoff),
                                !.backoff = NextBackoff(@), !.attempt = @ + 1]
    /\ UNCHANGED <<dispatchVars, benchVars, mainVars, calls, batch>>

\* line 71: the loop is over without a return
ClientExit ==
    /\ client.pc = "loop"
    /\ client.attempt >= client.max_retries
    /\ client' = [client EXCEPT !.pc = "returned", !.result = ClientNone]
    /\ UNCHANGED <<dispatchVars, benchVars, mainVars, calls, batch>>

PairNext ==
    \/ \E d \in Deployments : ReceiveRequest(d)
    \/ AnalyzeStart
    \/ \E o \in PostOutcomes, t \in 0..MaxPostTime : Post(o, t)
    \/ Sleep
    \/ LoopExit
    \/ ClientCall
    \/ ClientPost
    \/ ClientSleep
    \/ ClientExit

PairSpec == Init /\ [][PairNext]_vars

(***************************************************************************)
(* backend/main.py, analyze_batch                                          *)
(***************************************************************************)
\* a text AnalysisRequest accepts, and the empty one
Texts == {"I love this", ""}

TextLists == UNION {[1..n -> Texts] : n \in 0..MaxTexts}

\* models.py line 10: Field(..., min_length=1, max_length=1000)
ValidText(t) == t # ""

BatchInit ==
    /\ BenchOff
    /\ settings \in {s \in Settings : s.MAX_RETRIES \in {0, 2} /\ s.INITIAL_BACKOFF = TimeScale
                                      /\ s.LAMBDA_ENDPOINT = LambdaUrl
                                      /\ s.KUBERNETES_ENDPOINT = KubernetesUrl}
    /\ pc = "idle"
    /\ deployment = None
    /\ endpoint = None
    /\ attempt = 0
    /\ backoff = 0
    /\ last_error = None
    /\ start_time = 0
    /\ clock = 0
    /\ posts = <<>>
    /\ sleeps = <<>>
    /\ result = NoResult
    /\ http = NoAnswer
    /\ RETRY_ATTEMPTS = [k \in Deployments \X Reasons |-> 0]
    /\ DEPLOYMENT_REQUEST_COUNT = [k \in Deployments \X Statuses |-> 0]
    /\ DEPLOYMENT_LATENCY = [d \in Deployments |-> 0]

\* lines 108-111: the request arrives; results = []
BatchReceive(texts) ==
    /\ batch.pc = "idle"
    /\ pc = "idle"
    /\ batch' = [NoBatch EXCEPT !.pc = "iterating", !.texts = texts, !.index = 1]
    /\ UNCHANGED <<dispatchVars, benchVars, mainVars, calls, client>>

\* line 114: AnalysisRequest(text=text) raises ValidationError for a text
\* the model refuses, which no except clause of analyze_batch catches;
\* otherwise analyze_sentiment is called with the default deployment
BatchAnalyze ==
    /\ batch.pc = "iterating"
    /\ pc = "idle"
    /\ batch.index <= Len(batch.texts)
    /\ IF ValidText(batch.texts[batch.index])
       THEN /\ deployment' = "lambda"
            /\ pc' = "analyze"
            /\ UNCHANGED batch
       ELSE /\ batch' = [batch EXCEPT !.pc = "answered", !.status_code = 500]
            /\ UNCHANGED <<deployment, pc>>
    /\ UNCHANGED <<settings, endpoint, attempt, backoff, last_error, start_time, clock,
                   posts, sleeps, result, http,
                   RETRY_ATTEMPTS, DEPLOYMENT_REQUEST_COUNT, DEPLOYMENT_LATENCY>>
    /\ UNCHANGED <<benchVars, mainVars, calls, client>>

\* lines 114-117: analyze_sentiment is over.  What it returns is the dict
\* analyze built, which has no method dict(): results.append(result.dict())
\* raises AttributeError, which no except clause catches.  The
\* HTTPException it raises becomes an error entry.
BatchCollect ==
    /\ batch.pc = "iterating"
    /\ pc = "done"
    /\ batch' = IF result.kind = "return"
                THEN [batch EXCEPT !.pc = "answered", !.status_code = 500]
                ELSE [batch EXCEPT !.results = Append(@, [text |-> batch.texts[batch.index],
                                                          error |-> http.detail]),
                                   !.index = @ + 1]
    /\ pc' = "idle"
    /\ deployment' = None
    /\ endpoint' = None
    /\ attempt' = 0
    /\ backoff' = 0
    /\ last_error' = None
    /\ posts' = <<>>
    /\ sleeps' = <<>>
    /\ result' = NoResult
    /\ http' = NoAnswer
    /\ UNCHANGED <<settings, start_time, clock,
                   RETRY_ATTEMPTS, DEPLOYMENT_REQUEST_COUNT, DEPLOYMENT_LATENCY>>
    /\ UNCHANGED <<benchVars, mainVars, calls, client>>

\* lines 119-123: the loop is over
BatchReturn ==
    /\ batch.pc = "iterating"
    /\ pc = "idle"
    /\ batch.index > Len(batch.texts)
    /\ batch' = [batch EXCEPT
                    !.pc = "answered",
                    !.status_code = 200,
                    !.total = Len(batch.texts),
                    !.successful = Cardinality({i \in DOMAIN batch.results :
                                                    "error" \notin DOMAIN batch.results[i]})]
    /\ UNCHANGED <<dispatchVars, benchVars, mainVars, calls, client>>

BatchNext ==
    \/ \E texts \in TextLists : BatchReceive(texts)
    \/ BatchAnalyze
    \/ AnalyzeStart
    \/ \E o \in PostOutcomes, t \in 0..MaxPostTime : Post(o, t)
    \/ Sleep
    \/ LoopExit
    \/ Respond
    \/ BatchCollect
    \/ BatchReturn

BatchSpec == BatchInit /\ [][BatchNext]_vars

(***************************************************************************)
(* C38: /analyze-batch answers every list of texts with total = the number *)
(* of texts, one result entry per text in input order and successful = the *)
(* number of entries without an error; no text, analysed with success or   *)
(* not, ends the request in an unhandled error.                            *)
(***************************************************************************)
C38_BatchAnswersPerText ==
    batch.pc = "answered" =>
        /\ batch.status_code = 200
        /\ batch.total = Len(batch.texts)
        /\ Len(batch.results) = Len(batch.texts)
        /\ \A i \in DOMAIN batch.results : batch.results[i].text = batch.texts[i]
        /\ batch.successful = Cardinality({i \in DOMAIN batch.results :
                                                "error" \notin DOMAIN batch.results[i]})

OwnTransients(c) == c.transients["504_timeout"] + c.transients["request_timeout"]

OwnRetryState(c) ==
    /\ c.pc = "idle" => c = NoCall
    /\ c.pc = "loop" => c.attempt = OwnTransients(c)
    /\ c.pc \in {"RETRY_ATTEMPTS", "sleep"} => c.attempt = OwnTransients(c) - 1
    /\ (c.pc # "idle" /\ ~NotEndpoint(_get_endpoint(c.deployment))) =>
            c.backoff * 2 ^ c.attempt = settings.INITIAL_BACKOFF * 3 ^ c.attempt
    /\ (c.pc = "loop" /\ OwnTransients(c) = 0) =>
            (c.attempt = 0 /\ c.backoff = settings.INITIAL_BACKOFF)
    /\ c.retry_attempts # NoRetryAttempts =>
            (~c.raised /\ c.retry_attempts = c.attempt /\ c.retry_attempts = OwnTransients(c))

C31_RetryStatePrivate ==
    /\ [](\A i \in DOMAIN calls : OwnRetryState(calls[i]))
    /\ [][\A i \in DOMAIN calls :
            calls'[i] # calls[i] =>
                \A j \in DOMAIN calls \ {i} : calls'[j] = calls[j]]_vars

C31_Witness ==
    /\ Len(calls) = 2
    /\ calls[1].pc = "sleep"
    /\ calls[1].attempt = 0
    /\ calls[1].backoff = settings.INITIAL_BACKOFF
    /\ calls[2].pc = "done"
    /\ calls[2].attempt = 1
    /\ calls[2].retry_attempts = 1
    /\ 2 * calls[2].backoff = 3 * settings.INITIAL_BACKOFF

(***************************************************************************)
(* C32: a backoff sleep blocks only the call that sleeps.  While a call    *)
(* sleeps it holds no metric lock, and every other unanswered call can     *)
(* take its next step (start, post and retry, count, answer), unless the   *)
(* lock it needs is held by a call that is not sleeping and can itself     *)
(* proceed.                                                                *)
(***************************************************************************)
StepOf(j) ==
    \/ \E d \in Deployments : ConcReceive(j, d)
    \/ \E o \in PostOutcomes : ConcPost(j, o)
    \/ ConcRetryCounted(j)
    \/ ConcWake(j)
    \/ ConcCount(j)
    \/ ConcCounted(j)
    \/ ConcObserve(j)

InsideInc(k) == calls[k].pc \in {"RETRY_ATTEMPTS", "DEPLOYMENT_REQUEST_COUNT"}

C32_SleepBlocksOnlySleeper ==
    \A i \in DOMAIN calls :
        calls[i].pc = "sleep" =>
            /\ calls[i].key = <<>>
            /\ \A j \in DOMAIN calls \ {i} :
                    /\ calls[j].pc = "idle" => ENABLED (\E d \in Deployments : ConcReceive(j, d))
                    /\ calls[j].pc = "loop" =>
                            ENABLED (\E o \in PostOutcomes :
                                        Branch(o) = "success" /\ ConcPost(j, o))
                    /\ calls[j].pc = "observe" => ENABLED ConcObserve(j)
                    /\ calls[j].pc # "done" =>
                            \/ ENABLED StepOf(j)
                            \/ \E k \in DOMAIN calls \ {i, j} :
                                    InsideInc(k) /\ ENABLED StepOf(k)

C32_Witness ==
    /\ Len(calls) = 2
    /\ calls[1].pc = "sleep"
    /\ calls[2].pc = "observe"
    /\ calls[2].attempt = 1
    /\ ~calls[2].raised

====
